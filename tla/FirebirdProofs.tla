--------------------------- MODULE FirebirdProofs ---------------------------
(***************************************************************************)
(* What a FirebirdDbc_libfbclient and its statements promise to a client   *)
(* that keeps the protocol, for any number of statements, transactions,    *)
(* attachments and resultsets and every set of queries: no transaction is  *)
(* lost, shared or ended by somebody else, no call uses what is gone, and  *)
(* the resultsets stay in step with the server's cursors.                  *)
(***************************************************************************)
EXTENDS FirebirdConnection, SequenceTheorems, FiniteSetTheorems, WellFoundedInduction, TLAPS

TrxStates == {"active", "committed", "rolled back"}

Results ==
  [m_cursorstate : SUBSET CursorFlags, m_handle : Nat, m_sql : Queries, m_osqlda : BOOLEAN,
   m_column_desc : SUBSET Nat, m_current_tuple : Int, cursor : Nat, at : Nat, buf : Nat,
   blob : [trx : Nat, at : Nat]]

Statements ==
  [alive : BOOLEAN, m_cursorstate : SUBSET CursorFlags, m_resultsets : Seq(Results),
   m_localTrx : Nat, m_currentTrx : Nat, owing : BOOLEAN]

-----------------------------------------------------------------------------
(* The invariant                                                           *)

\* The map of a connection and the server's transactions: every transaction
\* that is active has one place, and no place has one that is not.
Mapped(map, t) ==
  /\ map \in Seq(Nat) /\ Own \in DOMAIN map
  /\ t \in Seq(TrxStates)
  /\ \A id \in DOMAIN map : map[id] # NoTrx => Active(t, map[id])
  /\ \A x \in ActiveTrx(t) : \E id \in DOMAIN map : map[id] = x
  /\ \A i, j \in DOMAIN map : map[i] = map[j] /\ map[i] # NoTrx => i = j

\* A state is a prefix of the ranked ones, BAD or not.
Prefixed(rs) ==
  /\ IsEof(rs) => Positioned(rs)
  /\ Positioned(rs) => IsOpen(rs)
  /\ IsOpen(rs) => IsPrepared(rs)

\* The position of an open resultset, its variables and its stream.
InStep(rs) ==
  /\ IF IsEof(rs) THEN rs.at = Behind ELSE rs.at = rs.m_current_tuple
  /\ Positioned(rs) /\ ~IsEof(rs) =>
       rs.at = rs.buf /\ rs.at # NoRow /\ (rs.blob # NoBlob => rs.blob.at = rs.at)

\* A resultset of the attachment h.
ResultFine(rs, h) ==
  /\ rs \in Results
  /\ Prefixed(rs)
  /\ rs.m_handle \in {NoHandle, h}
  /\ IsPrepared(rs) => rs.m_handle = h /\ h # NoHandle
  /\ IsOpen(rs) /\ ~IsBad(rs) => InStep(rs)

\* The transactions a statement has streams open in.
StreamsOf(st) ==
  {st.m_resultsets[i].blob.trx :
     i \in {j \in DOMAIN st.m_resultsets : st.m_resultsets[j].blob # NoBlob}}

\* A statement prepares its last resultset and no other.
ResultsFine(st, h) ==
  \A i \in DOMAIN st.m_resultsets :
    /\ ResultFine(st.m_resultsets[i], h)
    /\ IsPrepared(st.m_resultsets[i]) => i = Len(st.m_resultsets) /\ IsStmtPrepared(st)

\* The local transaction is the one the statement uses, from prepare() to
\* close(), or until a close() succeeds.
LocalFine(st, map) ==
  HasLocalTrx(st) =>
    /\ st.m_localTrx \in DOMAIN map \ {Own}
    /\ map[st.m_localTrx] # NoTrx =>
         /\ st.alive
         /\ \/ st.m_resultsets # <<>> /\ st.m_currentTrx = st.m_localTrx
            \/ st.m_resultsets = <<>> /\ st.owing

StmtFine(st, map, t, h) ==
  /\ st \in Statements /\ "BAD" \notin st.m_cursorstate
  /\ ResultsFine(st, h)
  /\ LocalFine(st, map)
  /\ st.m_resultsets = <<>> => st.m_currentTrx = Invalid
  /\ \A x \in StreamsOf(st) : Active(t, x)

Fine(w, h) ==
  /\ DOMAIN w = {"map", "trx", "st"}
  /\ Mapped(w.map, w.trx) /\ StmtFine(w.st, w.map, w.trx, h)

\* A connection object and its attachment.
Connected(d) ==
  /\ d \in [alive : BOOLEAN, m_dbh : Nat, m_isConnected : BOOLEAN, m_trx_map : Seq(Nat)]
  /\ d.m_isConnected <=> d.m_dbh # NoHandle

\* Whose the ids are.
Named(sts, map, ids) ==
  /\ ids \subseteq DOMAIN map \ {Own}
  /\ \A s \in Stmts :
       /\ sts[s].m_localTrx \notin ids
       /\ sts[s].m_currentTrx \in {Invalid, Own, sts[s].m_localTrx} \union ids
       /\ \A r \in Stmts \ {s} : HasLocalTrx(sts[s]) => sts[r].m_localTrx # sts[s].m_localTrx
  /\ \A id \in DOMAIN map :
       map[id] # NoTrx => id = Own \/ id \in ids \/ \E s \in Stmts : sts[s].m_localTrx = id

\* A local transaction has no streams of other statements.
Apart(sts, map) ==
  \A s \in Stmts : HasLocalTrx(sts[s]) =>
    \A r \in Stmts \ {s} : map[sts[s].m_localTrx] \notin StreamsOf(sts[r])

\* The statements sts, the map m, the transactions t and the ids of the client.
Whole(sts, m, t, ids, h) ==
  /\ Mapped(m, t)
  /\ sts \in [Stmts -> Statements]
  /\ \A s \in Stmts : StmtFine(sts[s], m, t, h)
  /\ Named(sts, m, ids)
  /\ Apart(sts, m)

FirebirdInv ==
  /\ ret \in {Ok, Terminated}
  /\ Connected(dbc) /\ opened \in Nat
  /\ Whole(stmts, dbc.m_trx_map, trx, mine, dbc.m_dbh)
  /\ \A s \in Stmts :
       /\ stmts[s].alive => dbc.alive
       /\ ~stmts[s].alive => stmts[s].m_resultsets = <<>>

-----------------------------------------------------------------------------
(* The cursor states                                                       *)

LEMMA Masks ==
  /\ Mask("PREPARED") = {"PREPARED"}
  /\ Mask("OPEN") = {"PREPARED", "OPEN"}
  /\ Mask("POSITIONED") = {"PREPARED", "OPEN", "POSITIONED"}
  /\ Mask("EOF") = {"PREPARED", "OPEN", "POSITIONED", "EOF"}
<1>1. ASSUME NEW i \in 1 .. 4
      PROVE  Mask(Ranked[i]) = {Ranked[j] : j \in 1 .. i}
  <2>1. \A r \in 1 .. 4 : Ranked[r] = Ranked[i] => r = i
    BY DEF Ranked
  <2> QED BY <2>1 DEF Mask
<1>2. /\ Ranked[1] = "PREPARED" /\ Ranked[2] = "OPEN" /\ Ranked[3] = "POSITIONED"
      /\ Ranked[4] = "EOF"
  BY DEF Ranked
<1>3. Mask("PREPARED") = {"PREPARED"}
  BY <1>1, <1>2, 1 .. 1 = {1}
<1>4. Mask("OPEN") = {"PREPARED", "OPEN"}
  BY <1>1, <1>2, 1 .. 2 = {1, 2}
<1>5. Mask("POSITIONED") = {"PREPARED", "OPEN", "POSITIONED"}
  BY <1>1, <1>2, 1 .. 3 = {1, 2, 3}
<1>6. Mask("EOF") = {"PREPARED", "OPEN", "POSITIONED", "EOF"}
  BY <1>1, <1>2, 1 .. 4 = {1, 2, 3, 4}
<1> QED BY <1>3, <1>4, <1>5, <1>6

\* All of a resultset but its state.
Alike(q, rs) ==
  /\ q \in Results
  /\ q.m_handle = rs.m_handle /\ q.m_sql = rs.m_sql /\ q.m_osqlda = rs.m_osqlda
  /\ q.m_column_desc = rs.m_column_desc /\ q.m_current_tuple = rs.m_current_tuple
  /\ q.cursor = rs.cursor /\ q.at = rs.at /\ q.buf = rs.buf /\ q.blob = rs.blob

LEMMA StateSet ==
  ASSUME NEW rs \in Results, NEW s \in CursorFlags
  PROVE  /\ Alike(SetState(rs, s), rs)
         /\ SetState(rs, s).m_cursorstate
              = IF s = "BAD" THEN rs.m_cursorstate \union {"BAD"} ELSE Mask(s)
<1> DEFINE m == SetCursorState(rs.m_cursorstate, s)
<1>1. rs.m_cursorstate \in SUBSET CursorFlags
  BY DEF Results
<1>2. m \in SUBSET CursorFlags
  BY <1>1, Masks DEF SetCursorState, CursorFlags
<1>3. m = IF s = "BAD" THEN rs.m_cursorstate \union {"BAD"} ELSE Mask(s)
  BY DEF SetCursorState
<1>4. SetState(rs, s) = [rs EXCEPT !.m_cursorstate = m]
  BY DEF SetState
<1> HIDE DEF m
<1> QED BY <1>2, <1>3, <1>4 DEF Results, Alike

\* What the states say.
LEMMA States ==
  ASSUME NEW rs \in Results
  PROVE  /\ LET q == SetState(rs, "PREPARED")
            IN  IsPrepared(q) /\ ~IsOpen(q) /\ ~Positioned(q) /\ ~IsEof(q) /\ ~IsBad(q)
         /\ LET q == SetState(rs, "OPEN")
            IN  IsPrepared(q) /\ IsOpen(q) /\ ~Positioned(q) /\ ~IsEof(q) /\ ~IsBad(q)
         /\ LET q == SetState(rs, "POSITIONED")
            IN  IsPrepared(q) /\ IsOpen(q) /\ Positioned(q) /\ ~IsEof(q) /\ ~IsBad(q)
         /\ LET q == SetState(rs, "EOF")
            IN  IsPrepared(q) /\ IsOpen(q) /\ Positioned(q) /\ IsEof(q) /\ ~IsBad(q)
         /\ LET q == SetState(rs, "BAD")
            IN  /\ IsPrepared(q) <=> IsPrepared(rs)
                /\ IsOpen(q) <=> IsOpen(rs)
                /\ Positioned(q) <=> Positioned(rs)
                /\ IsEof(q) <=> IsEof(rs)
                /\ IsBad(q)
<1>1. {"PREPARED", "OPEN", "POSITIONED", "EOF", "BAD"} \subseteq CursorFlags
  BY DEF CursorFlags
<1>2. SetState(rs, "PREPARED").m_cursorstate = {"PREPARED"}
  BY <1>1, StateSet, Masks
<1>3. SetState(rs, "OPEN").m_cursorstate = {"PREPARED", "OPEN"}
  BY <1>1, StateSet, Masks
<1>4. SetState(rs, "POSITIONED").m_cursorstate = {"PREPARED", "OPEN", "POSITIONED"}
  BY <1>1, StateSet, Masks
<1>5. SetState(rs, "EOF").m_cursorstate = {"PREPARED", "OPEN", "POSITIONED", "EOF"}
  BY <1>1, StateSet, Masks
<1>6. SetState(rs, "BAD").m_cursorstate = rs.m_cursorstate \union {"BAD"}
  BY <1>1, StateSet
<1> QED BY <1>2, <1>3, <1>4, <1>5, <1>6 DEF IsPrepared, IsOpen, Positioned, IsEof, IsBad

LEMMA Words ==
  /\ GoesOn(None) /\ GoesOn(Ok) /\ GoesOn(Yes) /\ GoesOn(No) /\ GoesOn(Throw)
  /\ \A v : GoesOn(Value(v)) /\ Value(v) # Throw
  /\ ~GoesOn(Abort) /\ ~GoesOn(Undefined)
  /\ Ok # Throw /\ Ok # Abort /\ Ok # Undefined /\ Yes # No /\ Throw # Yes /\ Throw # No
  /\ Ok # Yes /\ Ok # No /\ Throw # Abort /\ Throw # Undefined
  /\ GoesOn(Terminated) /\ Terminated # Ok /\ Terminated # Throw
  /\ \A b : GoesOn(Bool(b))
BY DEF GoesOn, None, Ok, Yes, No, Throw, Value, Abort, Undefined, Bool, Terminated

-----------------------------------------------------------------------------
(* Resultsets                                                              *)

\* What a method leaves of a resultset when it is given the transaction x for
\* a new stream: the program goes on.
Used(o, rs, h, x) ==
  /\ GoesOn(o.ret)
  /\ ResultFine(o.rs, h)
  /\ IsPrepared(o.rs) <=> IsPrepared(rs)
  /\ o.rs.blob \in {rs.blob, NoBlob} \/ (o.rs.blob.trx = x /\ x # NoTrx)

LEMMA Untouched ==
  ASSUME NEW rs, NEW h, NEW x, ResultFine(rs, h), NEW r, GoesOn(r)
  PROVE  Used(Outcome(rs, r), rs, h, x)
BY DEF Used, Outcome

LEMMA FailingUsed ==
  ASSUME NEW rs, NEW h, NEW x, ResultFine(rs, h), NEW o \in Failing(rs)
  PROVE  Used(o, rs, h, x)
BY Untouched, Words DEF Failing, Only

\* What moves nothing.
LEMMA AskUsed ==
  ASSUME NEW rs, NEW h, NEW x, ResultFine(rs, h), NEW num,
         NEW o \in RsEof(rs) \union RsRowID(rs) \union RsColumnCount(rs)
                     \union RsDescribeColumn(rs, num) \union RsColumnID(rs, num)
                     \union RsAffectedRows(rs) \union RsParamCount(rs) \union RsLastInsertRowId(rs)
  PROVE  Used(o, rs, h, x)
<1>1. \E r : GoesOn(r) /\ o = Outcome(rs, r)
  BY Words DEF RsEof, RsRowID, RsColumnCount, RsDescribeColumn, RsColumnID, RsAffectedRows,
               RsParamCount, RsLastInsertRowId, Failing, Only
<1> QED BY <1>1, Untouched

\* Induction over the natural numbers, without a predicate as a parameter.
LEMMA LeastMember ==
  ASSUME NEW T, T \subseteq Nat, T # {}
  PROVE  \E x \in T : \A y \in T : x <= y
<1> DEFINE R == {ss \in Nat \X Nat : ss[1] < ss[2]}
<1>1. IsWellFoundedOn(R, Nat)
  BY NatLessThanWellFounded DEF OpToRel
<1> HIDE DEF R
<1>2. PICK x \in T : \A y \in T : ~(<<y, x>> \in R)
  BY <1>1, WFMin
<1>3. ASSUME NEW y \in T PROVE x <= y
  <2>1. y < x => <<y, x>> \in R
    BY DEF R
  <2> QED BY <1>2, <2>1
<1> QED BY <1>2, <1>3

LEMMA NoBlobFacts == NoBlob \in [trx : Nat, at : Nat] /\ NoBlob.trx = NoTrx /\ NoBlob.at = NoRow
BY DEF NoBlob, NoTrx, NoRow

\* A row has arrived.
LEMMA ArrivedFine ==
  ASSUME NEW rs, NEW h, ResultFine(rs, h), IsOpen(rs), ~IsBad(rs), rs.at < MaxRows
  PROVE  /\ ResultFine(Arrived(rs, rs.at + 1), h)
         /\ IsPrepared(rs) /\ IsPrepared(Arrived(rs, rs.at + 1))
         /\ Arrived(rs, rs.at + 1).blob = NoBlob
<1> DEFINE k == rs.at + 1
           a == SetState(rs, "POSITIONED")
           n == a.m_current_tuple + 1
           b == [a EXCEPT !.m_current_tuple = n]
           c == [b EXCEPT !.at = k]
           d == [c EXCEPT !.buf = k]
           e == [d EXCEPT !.blob = NoBlob]
<1>1. /\ rs \in Results /\ IsPrepared(rs) /\ rs.m_handle = h /\ h # NoHandle /\ InStep(rs)
      /\ rs.at \in Nat /\ rs.m_current_tuple \in Int
  BY DEF ResultFine, Prefixed, Results
<1>2. ~IsEof(rs) /\ rs.at = rs.m_current_tuple
  BY <1>1, LibraryAssumption DEF InStep, Behind
<1>3. /\ Alike(a, rs) /\ IsPrepared(a) /\ IsOpen(a) /\ Positioned(a) /\ ~IsEof(a) /\ ~IsBad(a)
  BY <1>1, StateSet, States DEF CursorFlags
<1>4. Arrived(rs, k) = e
  BY DEF Arrived
<1>5. k \in Nat /\ k # NoRow
  BY <1>1 DEF NoRow
<1>6. n \in Int /\ n = k
  BY <1>1, <1>2, <1>3 DEF Alike
<1> HIDE DEF a, k, n
<1>7. /\ b \in Results /\ b.m_current_tuple = n /\ b.m_cursorstate = a.m_cursorstate
      /\ b.m_handle = a.m_handle
  BY <1>3, <1>6 DEF Alike, Results
<1> HIDE DEF b
<1>8. /\ c \in Results /\ c.m_current_tuple = n /\ c.m_cursorstate = a.m_cursorstate
      /\ c.m_handle = a.m_handle /\ c.at = k
  BY <1>5, <1>7 DEF Results
<1> HIDE DEF c
<1>9. /\ d \in Results /\ d.m_current_tuple = n /\ d.m_cursorstate = a.m_cursorstate
      /\ d.m_handle = a.m_handle /\ d.at = k /\ d.buf = k
  BY <1>5, <1>8 DEF Results
<1> HIDE DEF d
<1>10. /\ e \in Results /\ e.m_current_tuple = n /\ e.m_cursorstate = a.m_cursorstate
       /\ e.m_handle = a.m_handle /\ e.at = k /\ e.buf = k /\ e.blob = NoBlob
  BY <1>9, NoBlobFacts DEF Results
<1> HIDE DEF e
<1>11. IsPrepared(e) /\ IsOpen(e) /\ Positioned(e) /\ ~IsEof(e) /\ ~IsBad(e)
  BY <1>3, <1>10 DEF IsPrepared, IsOpen, Positioned, IsEof, IsBad
<1>12. Prefixed(e) /\ InStep(e)
  BY <1>5, <1>6, <1>10, <1>11 DEF Prefixed, InStep
<1>13. e.m_handle = h
  BY <1>1, <1>3, <1>10 DEF Alike
<1>14. ResultFine(e, h)
  BY <1>1, <1>10, <1>12, <1>13 DEF ResultFine
<1> QED BY <1>1, <1>4, <1>10, <1>11, <1>14 DEF k

\* The cursor is behind the last row.
LEMMA EndedFine ==
  ASSUME NEW rs, NEW h, ResultFine(rs, h), IsOpen(rs), ~IsBad(rs)
  PROVE  LET q == [SetState(rs, "EOF") EXCEPT !.at = Behind]
         IN  ResultFine(q, h) /\ IsPrepared(q) /\ IsPrepared(rs) /\ q.blob = rs.blob
<1> DEFINE a == SetState(rs, "EOF")
           q == [a EXCEPT !.at = Behind]
<1>1. rs \in Results /\ IsPrepared(rs) /\ rs.m_handle = h /\ h # NoHandle
  BY DEF ResultFine, Prefixed
<1>2. Alike(a, rs) /\ IsPrepared(a) /\ IsOpen(a) /\ Positioned(a) /\ IsEof(a) /\ ~IsBad(a)
  BY <1>1, StateSet, States DEF CursorFlags
<1>3. Behind \in Nat
  BY LibraryAssumption DEF Behind
<1> HIDE DEF a
<1>4. /\ q \in Results /\ q.at = Behind /\ q.m_cursorstate = a.m_cursorstate
      /\ q.m_handle = h /\ q.blob = rs.blob
  BY <1>1, <1>2, <1>3 DEF Alike, Results
<1> HIDE DEF q
<1>5. IsPrepared(q) /\ IsOpen(q) /\ Positioned(q) /\ IsEof(q) /\ ~IsBad(q)
  BY <1>2, <1>4 DEF IsPrepared, IsOpen, Positioned, IsEof, IsBad
<1> QED BY <1>1, <1>4, <1>5 DEF ResultFine, Prefixed, InStep, a, q

\* A fetch has failed.
LEMMA BadFine ==
  ASSUME NEW rs, NEW h, ResultFine(rs, h)
  PROVE  LET q == SetState(rs, "BAD")
         IN  ResultFine(q, h) /\ (IsPrepared(q) <=> IsPrepared(rs)) /\ q.blob = rs.blob
<1> DEFINE q == SetState(rs, "BAD")
<1>1. rs \in Results
  BY DEF ResultFine
<1>2. /\ Alike(q, rs) /\ IsBad(q)
      /\ IsPrepared(q) <=> IsPrepared(rs)
      /\ IsOpen(q) <=> IsOpen(rs)
      /\ Positioned(q) <=> Positioned(rs)
      /\ IsEof(q) <=> IsEof(rs)
  BY <1>1, StateSet, States DEF CursorFlags
<1> HIDE DEF q
<1> QED BY <1>2 DEF ResultFine, Prefixed, Alike, q

\* Fetching: no accessor meets a stream whose transaction is over.
LEMMA NextUsed ==
  ASSUME NEW rs, NEW h, NEW t, NEW x, ResultFine(rs, h), BlobCloses(rs, t), NEW o \in RsNext(rs, t)
  PROVE  Used(o, rs, h, x)
<1>1. CASE Unusable(rs)
  BY <1>1, FailingUsed DEF RsNext
<1>2. CASE ~Unusable(rs)
  <2>1. IsOpen(rs) /\ ~IsBad(rs) /\ IsPrepared(rs) /\ rs.m_handle # NoHandle /\ rs.at \in Nat
    BY <1>2 DEF Unusable, ResultFine, Prefixed, Results
  <2>2. CASE ~rs.m_osqlda
    <3>1. o = Outcome(rs, No)
      BY <1>2, <2>1, <2>2 DEF RsNext, Only
    <3> QED BY <3>1, Untouched, Words
  <2>3. CASE rs.m_osqlda
    <3> DEFINE k == rs.at
               q == [SetState(rs, "EOF") EXCEPT !.at = Behind]
    <3>1. PICK f \in Fetches(t, rs.cursor, k) :
            o = CASE f[2] = "ROW" -> Outcome(Arrived(rs, f[1]), Yes)
                  [] f[2] = "END"   -> Outcome([SetState(rs, "EOF") EXCEPT !.at = f[1]], No)
                  [] f[2] = "ERROR" -> Outcome(SetState(rs, "BAD"), Throw)
      BY <1>2, <2>1, <2>3 DEF RsNext
    <3>2. \/ f = <<k, "ERROR">>
          \/ f = <<k + 1, "ROW">> /\ k < MaxRows
          \/ f = <<Behind, "END">>
      BY DEF Fetches
    <3>3. CASE f = <<k, "ERROR">>
      <4>1. o = Outcome(SetState(rs, "BAD"), Throw)
        BY <3>1, <3>3
      <4> QED BY <4>1, BadFine, Words DEF Used, Outcome
    <3>4. CASE f = <<k + 1, "ROW">> /\ k < MaxRows
      <4>1. o = Outcome(Arrived(rs, rs.at + 1), Yes)
        BY <3>1, <3>4
      <4> QED BY <2>1, <3>4, <4>1, ArrivedFine, Words DEF Used, Outcome
    <3>5. CASE f = <<Behind, "END">>
      <4>1. o = Outcome(q, No)
        BY <3>1, <3>5
      <4>2. ResultFine(q, h) /\ IsPrepared(q) /\ q.blob = rs.blob
        BY <2>1, EndedFine
      <4> HIDE DEF q
      <4> QED BY <2>1, <4>1, <4>2, Words DEF Used, Outcome
    <3> QED BY <3>2, <3>3, <3>4, <3>5
  <2> QED BY <2>2, <2>3
<1> QED BY <1>1, <1>2

LEMMA FirstUsed ==
  ASSUME NEW rs, NEW h, NEW t, NEW x, ResultFine(rs, h), BlobCloses(rs, t), NEW o \in RsFirst(rs, t)
  PROVE  Used(o, rs, h, x)
<1>1. CASE Unusable(rs)
  BY <1>1, FailingUsed DEF RsFirst
<1>2. CASE ~Unusable(rs) /\ ~Positioned(rs)
  <2>1. PICK n \in RsNext(rs, t) : o = Outcome(n.rs, IF n.ret \in {Yes, No} THEN Ok ELSE n.ret)
    BY <1>2 DEF RsFirst
  <2>2. Used(n, rs, h, x)
    BY NextUsed
  <2> QED BY <2>1, <2>2, Words DEF Used, Outcome
<1>3. CASE ~Unusable(rs) /\ Positioned(rs)
  <2>1. PICK r \in {Ok, Throw} : o = Outcome(rs, r)
    BY <1>3 DEF RsFirst, Only
  <2> QED BY <2>1, Untouched, Words
<1> QED BY <1>1, <1>2, <1>3

\* The client is on a row.
OnRow(rs) == ~Unusable(rs) /\ Positioned(rs) /\ ~IsEof(rs)

LEMMA OnRowFacts ==
  ASSUME NEW rs, NEW h, ResultFine(rs, h), OnRow(rs)
  PROVE  rs.buf # NoRow /\ rs.buf = rs.at /\ rs.buf \in Nat
BY DEF OnRow, Unusable, ResultFine, InStep, Results

LEMMA ColumnUsed ==
  ASSUME NEW rs, NEW h, NEW x, ResultFine(rs, h), OnRow(rs), NEW num \in 1 .. Width + 1,
         NEW o \in RsColumn(rs, num)
  PROVE  Used(o, rs, h, x)
<1>1. num # 0
  BY WidthAssumption
<1>2. o \in Failing(rs) \/ o = Outcome(rs, Value(rs.buf))
  BY <1>1, OnRowFacts DEF RsColumn, Reading, Only
<1> QED BY <1>2, FailingUsed, Untouched, Words

LEMMA StreamUsed ==
  ASSUME NEW rs, NEW h, ResultFine(rs, h), OnRow(rs), NEW num \in 1 .. Width + 1,
         NEW x \in Nat, NEW o \in RsGetBlobStream(rs, num, x)
  PROVE  Used(o, rs, h, x)
<1> DEFINE s == [trx |-> x, at |-> rs.buf]
           q == [rs EXCEPT !.blob = s]
<1>1. num # 0
  BY WidthAssumption
<1>2. rs.buf # NoRow /\ rs.buf = rs.at /\ rs.buf \in Nat
  BY OnRowFacts
<1>3. \/ o \in Failing(rs) \/ o = Outcome(rs, Value(rs.blob.at))
      \/ o = Outcome(q, Value(rs.buf)) /\ x # NoTrx
  BY <1>1, <1>2 DEF RsGetBlobStream, Reading, Only
<1>4. CASE o = Outcome(q, Value(rs.buf)) /\ x # NoTrx
  <2>1. s \in [trx : Nat, at : Nat] /\ s.trx = x /\ s.at = rs.buf
    BY <1>2
  <2> HIDE DEF s
  <2>2. /\ q \in Results /\ q.blob = s /\ q.m_cursorstate = rs.m_cursorstate
        /\ q.m_handle = rs.m_handle /\ q.at = rs.at /\ q.buf = rs.buf
        /\ q.m_current_tuple = rs.m_current_tuple
    BY <2>1 DEF ResultFine, Results
  <2> HIDE DEF q
  <2>3. /\ IsPrepared(q) <=> IsPrepared(rs)
        /\ IsOpen(q) <=> IsOpen(rs)
        /\ Positioned(q) <=> Positioned(rs)
        /\ IsEof(q) <=> IsEof(rs)
        /\ IsBad(q) <=> IsBad(rs)
    BY <2>2 DEF IsPrepared, IsOpen, Positioned, IsEof, IsBad
  <2>4. ResultFine(q, h)
    BY <1>2, <2>1, <2>2, <2>3 DEF ResultFine, Prefixed, InStep
  <2> QED BY <1>4, <2>1, <2>2, <2>3, <2>4, Words DEF Used, Outcome
<1> QED BY <1>3, <1>4, FailingUsed, Untouched, Words

LEMMA ReadUsed ==
  ASSUME NEW rs, NEW h, NEW t, NEW x, ResultFine(rs, h), rs.blob # NoBlob,
         NEW o \in RsReadStream(rs, t)
  PROVE  Used(o, rs, h, x)
<1>1. o \in Failing(rs) \/ o = Outcome(rs, Value(rs.blob.at))
  BY DEF RsReadStream, Only
<1> QED BY <1>1, FailingUsed, Untouched, Words

LEMMA InitFine ==
  ASSUME NEW sql \in Queries, NEW h
  PROVE  LET rs == ResultInit(sql)
         IN  /\ ResultFine(rs, h) /\ ~IsPrepared(rs) /\ ~IsBad(rs)
             /\ rs.blob = NoBlob /\ rs.m_sql = sql
<1> DEFINE rs == ResultInit(sql)
<1>1. rs \in Results
  BY NoBlobFacts DEF ResultInit, Results, CLOSED, NoHandle, NoTrx, NoRow, CursorFlags
<1>2. /\ rs.m_cursorstate = {} /\ rs.m_handle = NoHandle /\ rs.blob = NoBlob /\ rs.m_sql = sql
  BY DEF ResultInit, CLOSED
<1> HIDE DEF rs
<1>3. ~IsPrepared(rs) /\ ~IsOpen(rs) /\ ~Positioned(rs) /\ ~IsEof(rs) /\ ~IsBad(rs)
  BY <1>2 DEF IsPrepared, IsOpen, Positioned, IsEof, IsBad
<1> QED BY <1>1, <1>2, <1>3 DEF ResultFine, Prefixed, rs

\* A new resultset after its prepare(): it is prepared when that did not throw.
Prepared(o, sql, h) ==
  /\ o.ret \in {Ok, Throw}
  /\ ResultFine(o.rs, h)
  /\ o.rs.blob = NoBlob /\ o.rs.m_sql = sql
  /\ IsPrepared(o.rs) <=> o.ret = Ok

LEMMA CompiledPrepared ==
  ASSUME NEW rs, NEW h, ResultFine(rs, h), ~IsPrepared(rs), rs.m_handle = h, h # NoHandle,
         rs.blob = NoBlob, NEW handle, NEW o \in Compiled(rs, handle)
  PROVE  Prepared(o, rs.m_sql, h)
<1> DEFINE a == [rs EXCEPT !.m_osqlda = FALSE]
           b == [rs EXCEPT !.m_osqlda = Kind[rs.m_sql] = "select"]
           c == SetState(b, "PREPARED")
<1>1. o = Outcome(a, Throw) \/ o = Outcome(b, Throw) \/ o = Outcome(c, Ok)
  BY DEF Compiled, Failing, Only
<1>2. rs \in Results
  BY DEF ResultFine
<1>3. ASSUME NEW q, q \in Results, q.m_cursorstate = rs.m_cursorstate, q.m_handle = h,
             q.at = rs.at, q.buf = rs.buf, q.m_current_tuple = rs.m_current_tuple, q.blob = NoBlob
      PROVE  ResultFine(q, h) /\ ~IsPrepared(q)
  BY <1>3 DEF ResultFine, Prefixed, InStep, IsPrepared, IsOpen, Positioned, IsEof, IsBad
<1>4. /\ a \in Results /\ a.m_cursorstate = rs.m_cursorstate /\ a.m_handle = h
      /\ a.at = rs.at /\ a.buf = rs.buf /\ a.m_current_tuple = rs.m_current_tuple /\ a.blob = NoBlob
      /\ a.m_sql = rs.m_sql
  BY <1>2 DEF Results
<1>5. /\ b \in Results /\ b.m_cursorstate = rs.m_cursorstate /\ b.m_handle = h
      /\ b.at = rs.at /\ b.buf = rs.buf /\ b.m_current_tuple = rs.m_current_tuple /\ b.blob = NoBlob
      /\ b.m_sql = rs.m_sql
  <2>1. (Kind[rs.m_sql] = "select") \in BOOLEAN
    OBVIOUS
  <2> QED BY <1>2, <2>1 DEF Results
<1> HIDE DEF a, b
<1>6. /\ Alike(c, b) /\ IsPrepared(c) /\ ~IsOpen(c) /\ ~Positioned(c) /\ ~IsEof(c) /\ ~IsBad(c)
  BY <1>5, StateSet, States DEF CursorFlags
<1> HIDE DEF c
<1>7. ResultFine(c, h) /\ c.blob = NoBlob /\ c.m_sql = rs.m_sql
  BY <1>5, <1>6 DEF Alike, ResultFine, Prefixed
<1>8. ResultFine(a, h) /\ ~IsPrepared(a) /\ ResultFine(b, h) /\ ~IsPrepared(b)
  BY <1>3, <1>4, <1>5
<1> QED BY <1>1, <1>4, <1>5, <1>6, <1>7, <1>8, Words DEF Prepared, Outcome

LEMMA PrepareUsed ==
  ASSUME NEW sql \in Queries, NEW d, Connected(d), NEW known, NEW handle,
         NEW o \in RsPrepare(ResultInit(sql), d, known, handle)
  PROVE  Prepared(o, sql, d.m_dbh)
<1> DEFINE rs == ResultInit(sql)
           h  == d.m_dbh
           q  == [rs EXCEPT !.m_handle = h]
<1>1. ResultFine(rs, h) /\ ~IsPrepared(rs) /\ ~IsBad(rs) /\ rs.blob = NoBlob /\ rs.m_sql = sql
  BY InitFine
<1>2. Only(rs, Ok) = {Outcome(rs, Ok)} /\ Outcome(rs, Ok).rs = rs /\ Outcome(rs, Ok).ret = Ok
  BY DEF Only, Outcome
<1>3. Prepared(Outcome(rs, Throw), sql, h)
  BY <1>1, Words DEF Prepared, Outcome
<1> HIDE DEF rs
<1>4. CASE ~d.m_isConnected
  <2>1. o = Outcome(rs, Throw)
    BY <1>4 DEF RsPrepare, Failing, Only, rs
  <2> QED BY <1>3, <2>1
<1>5. CASE d.m_isConnected
  <2>1. h # NoHandle /\ h \in Nat
    BY <1>5 DEF Connected
  <2>2. \/ o = Outcome(rs, Throw)
        \/ o \in Compiled(q, handle)
        \/ o = Outcome(q, Throw)
    BY <1>1, <1>2, <1>5 DEF RsPrepare, Failing, Only, rs
  <2> HIDE DEF h
  <2>3. /\ q \in Results /\ q.m_cursorstate = rs.m_cursorstate /\ q.m_handle = h /\ q.blob = NoBlob
        /\ q.m_sql = sql
    BY <1>1, <2>1 DEF ResultFine, Results
  <2>4. ResultFine(q, h) /\ ~IsPrepared(q)
    BY <1>1, <2>1, <2>3 DEF ResultFine, Prefixed, IsPrepared, IsOpen, Positioned, IsEof
  <2> HIDE DEF q
  <2>5. Prepared(Outcome(q, Throw), sql, h)
    BY <2>3, <2>4, Words DEF Prepared, Outcome
  <2>6. o \in Compiled(q, handle) => Prepared(o, sql, h)
    BY <2>1, <2>3, <2>4, CompiledPrepared
  <2> QED BY <1>3, <2>2, <2>5, <2>6 DEF h
<1> QED BY <1>4, <1>5

\* A resultset can be deleted while its attachment and its stream are there.
LEMMA DestroyedWell ==
  ASSUME NEW rs, NEW h, NEW t, ResultFine(rs, h), BlobCloses(rs, t), NEW o \in RsDestroy(rs, t, h)
  PROVE  o.ret = Ok
<1> DEFINE q == [rs EXCEPT !.blob = NoBlob]
<1>1. rs \in Results /\ rs.m_handle \in {NoHandle, h}
  BY DEF ResultFine
<1>2. q.m_handle = rs.m_handle
  BY <1>1 DEF Results
<1>3. PICK c \in RsClose(q, h) : o = Outcome(c.rs, IF c.ret = Throw THEN Abort ELSE c.ret)
  BY DEF RsDestroy
<1> HIDE DEF q
<1>4. c.ret = Ok
  BY <1>1, <1>2, <1>3 DEF RsClose, Only, Outcome
<1> QED BY <1>3, <1>4, Words DEF Outcome

LEMMA DestroyGives ==
  ASSUME NEW rs, NEW h, NEW t
  PROVE  RsDestroy(rs, t, h) # {}
BY DEF RsDestroy, RsClose, Only, Failing

\* An executed resultset, with the cursor c.
Executed(rs, c) ==
  [RefreshMetadata(SetState(rs, "OPEN")) EXCEPT !.m_current_tuple = 0, !.cursor = c, !.at = NoRow]

LEMMA ExecutedFine ==
  ASSUME NEW rs, NEW h, ResultFine(rs, h), IsPrepared(rs), NEW c, c \in Nat
  PROVE  LET q == Executed(rs, c)
         IN  ResultFine(q, h) /\ IsPrepared(q) /\ q.blob = rs.blob /\ q.m_sql = rs.m_sql
<1> DEFINE a == SetState(rs, "OPEN")
           m == 0 .. ColumnCount(a)
           b == [a EXCEPT !.m_column_desc = m]
           d == [b EXCEPT !.m_current_tuple = 0]
           e == [d EXCEPT !.cursor = c]
           q == [e EXCEPT !.at = NoRow]
<1>1. rs \in Results /\ rs.m_handle = h /\ h # NoHandle
  BY DEF ResultFine
<1>2. /\ Alike(a, rs) /\ IsPrepared(a) /\ IsOpen(a) /\ ~Positioned(a) /\ ~IsEof(a) /\ ~IsBad(a)
  BY <1>1, StateSet, States DEF CursorFlags
<1>3. Executed(rs, c) = q
  BY DEF Executed, RefreshMetadata
<1>4. m \in SUBSET Nat
  BY WidthAssumption DEF ColumnCount
<1> HIDE DEF a, m
<1>5. /\ b \in Results /\ b.m_cursorstate = a.m_cursorstate /\ b.m_handle = h
      /\ b.blob = rs.blob /\ b.m_sql = rs.m_sql
  BY <1>1, <1>2, <1>4 DEF Alike, Results
<1> HIDE DEF b
<1>6. /\ d \in Results /\ d.m_cursorstate = a.m_cursorstate /\ d.m_handle = h
      /\ d.blob = rs.blob /\ d.m_sql = rs.m_sql /\ d.m_current_tuple = 0
  BY <1>5 DEF Results
<1> HIDE DEF d
<1>7. /\ e \in Results /\ e.m_cursorstate = a.m_cursorstate /\ e.m_handle = h
      /\ e.blob = rs.blob /\ e.m_sql = rs.m_sql /\ e.m_current_tuple = 0
  BY <1>6 DEF Results
<1> HIDE DEF e
<1>8. /\ q \in Results /\ q.m_cursorstate = a.m_cursorstate /\ q.m_handle = h
      /\ q.blob = rs.blob /\ q.m_sql = rs.m_sql /\ q.m_current_tuple = 0 /\ q.at = 0
  BY <1>7 DEF Results, NoRow
<1> HIDE DEF q
<1>9. IsPrepared(q) /\ IsOpen(q) /\ ~Positioned(q) /\ ~IsEof(q) /\ ~IsBad(q)
  BY <1>2, <1>8 DEF IsPrepared, IsOpen, Positioned, IsEof, IsBad
<1> QED BY <1>1, <1>3, <1>8, <1>9 DEF ResultFine, Prefixed, InStep

-----------------------------------------------------------------------------
(* The map and the transactions                                            *)

\* From the map m and the transactions t to n and u: transactions are started
\* in places T only; those that end had a place in C or R and are committed or
\* rolled back; the handle of one that goes on stays where it is.
Evolves(m, t, n, u, T, C, R) ==
  /\ Mapped(n, u)
  /\ DOMAIN m \subseteq DOMAIN n /\ Len(t) <= Len(u)
  /\ \A x \in DOMAIN t :
       \/ u[x] = t[x]
       \/ t[x] = "active" /\ u[x] = "committed" /\ \E id \in C \intersect DOMAIN m : m[id] = x
       \/ t[x] = "active" /\ u[x] = "rolled back" /\ \E id \in R \intersect DOMAIN m : m[id] = x
  /\ \A id \in DOMAIN m : m[id] # NoTrx /\ Active(u, m[id]) => n[id] = m[id]
  /\ \A id \in DOMAIN n : n[id] # NoTrx =>
       \/ id \in DOMAIN m /\ n[id] = m[id]
       \/ id \in T /\ n[id] > Len(t)

LEMMA MapFacts ==
  ASSUME NEW m, NEW t, Mapped(m, t)
  PROVE  /\ DOMAIN m = 1 .. Len(m) /\ Len(m) \in Nat \ {0}
         /\ DOMAIN t = 1 .. Len(t) /\ Len(t) \in Nat
         /\ \A id \in DOMAIN m : m[id] \in Nat /\ (m[id] # NoTrx => m[id] \in 1 .. Len(t))
<1>1. m \in Seq(Nat) /\ 1 \in DOMAIN m /\ t \in Seq(TrxStates)
  BY DEF Mapped, Own
<1>2. DOMAIN m = 1 .. Len(m) /\ Len(m) \in Nat \ {0} /\ DOMAIN t = 1 .. Len(t) /\ Len(t) \in Nat
  BY <1>1
<1>3. \A id \in DOMAIN m : m[id] \in Nat
  BY <1>1
<1> QED BY <1>2, <1>3 DEF Mapped, Active

LEMMA EvolvesSame ==
  ASSUME NEW m, NEW t, Mapped(m, t), NEW T, NEW C, NEW R
  PROVE  Evolves(m, t, m, t, T, C, R)
BY MapFacts DEF Evolves

LEMMA EvolvesTwice ==
  ASSUME NEW m, NEW t, Mapped(m, t), NEW T, NEW C, NEW R,
         NEW n, NEW u, Evolves(m, t, n, u, T, C, R),
         NEW p, NEW v, Evolves(n, u, p, v, T, C, R)
  PROVE  Evolves(m, t, p, v, T, C, R)
<1>1. /\ Mapped(n, u) /\ Mapped(p, v)
      /\ DOMAIN m \subseteq DOMAIN n /\ DOMAIN n \subseteq DOMAIN p
      /\ Len(t) <= Len(u) /\ Len(u) <= Len(v)
      /\ DOMAIN t = 1 .. Len(t) /\ DOMAIN u = 1 .. Len(u) /\ DOMAIN v = 1 .. Len(v)
      /\ Len(t) \in Nat /\ Len(u) \in Nat /\ Len(v) \in Nat
  BY MapFacts DEF Evolves
<1>2. DOMAIN m \subseteq DOMAIN p /\ Len(t) <= Len(v) /\ DOMAIN t \subseteq DOMAIN u
  BY <1>1
\* A transaction of t that is active in u has the place it had.
<1>3. ASSUME NEW x \in DOMAIN t, t[x] = "active", u[x] = "active", NEW id \in DOMAIN n, n[id] = x
      PROVE  id \in DOMAIN m /\ m[id] = x
  <2>1. PICK i \in DOMAIN m : m[i] = x
    BY <1>3 DEF Mapped, ActiveTrx
  <2>2. x # NoTrx /\ Active(u, x)
    BY <1>1, <1>3 DEF NoTrx, Active
  <2>3. n[i] = x /\ i \in DOMAIN n
    BY <1>1, <2>1, <2>2 DEF Evolves
  <2>4. i = id
    BY <1>1, <1>3, <2>2, <2>3 DEF Mapped
  <2> QED BY <2>1, <2>4
<1>4. ASSUME NEW x \in DOMAIN t
      PROVE  \/ v[x] = t[x]
             \/ t[x] = "active" /\ v[x] = "committed" /\ \E id \in C \intersect DOMAIN m : m[id] = x
             \/ t[x] = "active" /\ v[x] = "rolled back" /\ \E id \in R \intersect DOMAIN m : m[id] = x
  <2>1. x \in DOMAIN u
    BY <1>2
  <2>2. CASE u[x] = t[x]
    <3>1. CASE v[x] = u[x]
      BY <2>2, <3>1
    <3>2. CASE u[x] = "active" /\ v[x] = "committed" /\ \E id \in C \intersect DOMAIN n : n[id] = x
      BY <1>3, <2>2, <3>2
    <3>3. CASE u[x] = "active" /\ v[x] = "rolled back" /\ \E id \in R \intersect DOMAIN n : n[id] = x
      BY <1>3, <2>2, <3>3
    <3> QED BY <2>1, <3>1, <3>2, <3>3 DEF Evolves
  <2>3. CASE u[x] # t[x]
    <3>1. u[x] # "active"
      BY <2>3 DEF Evolves
    <3>2. v[x] = u[x]
      BY <2>1, <3>1 DEF Evolves
    <3> QED BY <3>2 DEF Evolves
  <2> QED BY <2>2, <2>3
<1>5. ASSUME NEW id \in DOMAIN m, m[id] # NoTrx, Active(v, m[id])
      PROVE  p[id] = m[id]
  <2>1. Active(t, m[id])
    BY <1>5 DEF Mapped
  <2>2. m[id] \in DOMAIN t /\ t[m[id]] = "active" /\ v[m[id]] = "active"
    BY <1>5, <2>1 DEF Active
  <2>3. u[m[id]] = "active"
    <3>1. u[m[id]] # "active" => u[m[id]] \in {"committed", "rolled back"}
      BY <2>2 DEF Evolves
    <3>2. m[id] \in DOMAIN u
      BY <1>2, <2>2
    <3>3. u[m[id]] # "active" => v[m[id]] = u[m[id]]
      BY <3>2 DEF Evolves
    <3> QED BY <2>2, <3>3
  <2>4. Active(u, m[id])
    BY <1>2, <2>2, <2>3 DEF Active
  <2>5. n[id] = m[id] /\ id \in DOMAIN n
    BY <1>1, <1>5, <2>4 DEF Evolves
  <2> QED BY <1>5, <2>5 DEF Evolves
<1>6. ASSUME NEW id \in DOMAIN p, p[id] # NoTrx
      PROVE  \/ id \in DOMAIN m /\ p[id] = m[id]
             \/ id \in T /\ p[id] > Len(t)
  <2>0. p[id] \in Nat
    BY <1>1, MapFacts
  <2>1. CASE id \in DOMAIN n /\ p[id] = n[id]
    BY <1>6, <2>1 DEF Evolves
  <2>2. CASE id \in T /\ p[id] > Len(u)
    <3>1. p[id] > Len(t)
      BY <1>1, <2>0, <2>2
    <3> QED BY <2>2, <3>1
  <2> QED BY <1>6, <2>1, <2>2 DEF Evolves
<1> QED BY <1>1, <1>2, <1>4, <1>5, <1>6 DEF Evolves

\* More transactions might have been started or ended than were.
LEMMA EvolvesWithin ==
  ASSUME NEW m, NEW t, NEW n, NEW u, NEW T, NEW C, NEW R, Evolves(m, t, n, u, T, C, R),
         NEW S, NEW D, NEW Q, T \subseteq S, C \intersect DOMAIN m \subseteq D, R \intersect DOMAIN m \subseteq Q
  PROVE  Evolves(m, t, n, u, S, D, Q)
BY DEF Evolves

LEMMA ExceptFacts ==
  ASSUME NEW S, NEW q, q \in Seq(S), NEW i, i \in DOMAIN q, NEW e, e \in S
  PROVE  LET r == [q EXCEPT ![i] = e]
         IN  /\ r \in Seq(S) /\ Len(r) = Len(q) /\ Len(q) \in Nat /\ DOMAIN r = DOMAIN q
             /\ r[i] = e /\ \A j \in DOMAIN q \ {i} : r[j] = q[j]
<1>1. DOMAIN q = 1 .. Len(q) /\ Len(q) \in Nat
  OBVIOUS
<1> QED BY <1>1, ExceptSeq

\* A transaction in place id ends.
EndedIn(how, id, C, R) ==
  (how = "committed" /\ id \in C) \/ (how = "rolled back" /\ id \in R)

\* isc_commit_transaction and isc_rollback_transaction.
LEMMA EndEvolves ==
  ASSUME NEW m, NEW t, Mapped(m, t), NEW id, id \in DOMAIN m, m[id] # NoTrx,
         NEW how, NEW C, NEW R, EndedIn(how, id, C, R)
  PROVE  Evolves(m, t, [m EXCEPT ![id] = NoTrx], Ended(t, m[id], how), {}, C, R)
<1> DEFINE n == [m EXCEPT ![id] = NoTrx]
           x == m[id]
           u == Ended(t, x, how)
<1>1. /\ m \in Seq(Nat) /\ t \in Seq(TrxStates) /\ Own \in DOMAIN m
      /\ x \in DOMAIN t /\ t[x] = "active"
  BY DEF Mapped, Active
<1>2. /\ n \in Seq(Nat) /\ DOMAIN n = DOMAIN m /\ n[id] = NoTrx
      /\ \A i \in DOMAIN m \ {id} : n[i] = m[i]
  <2>1. NoTrx \in Nat
    BY DEF NoTrx
  <2> QED BY <1>1, <2>1, ExceptFacts
<1>3. /\ u \in Seq(TrxStates) /\ DOMAIN u = DOMAIN t /\ u[x] = how /\ u[x] # "active"
      /\ Len(u) = Len(t) /\ Len(t) \in Nat
      /\ \A y \in DOMAIN t \ {x} : u[y] = t[y]
  <2>1. how \in TrxStates
    BY DEF TrxStates, EndedIn
  <2>2. u = [t EXCEPT ![x] = how]
    BY DEF Ended
  <2> DEFINE r == [t EXCEPT ![x] = how]
  <2>3. /\ r \in Seq(TrxStates) /\ Len(r) = Len(t) /\ Len(t) \in Nat /\ DOMAIN r = DOMAIN t
        /\ r[x] = how /\ \A y \in DOMAIN t \ {x} : r[y] = t[y]
    BY <1>1, <2>1, ExceptFacts
  <2>4. u = r
    BY <2>2
  <2>5. how # "active"
    BY DEF EndedIn
  <2> HIDE DEF u, x, r
  <2> QED BY <2>3, <2>4, <2>5
<1>4. \A i \in DOMAIN m \ {id} : m[i] # x
  BY DEF Mapped
<1> HIDE DEF n, u, x
<1>5. Mapped(n, u)
  <2>1. \A i \in DOMAIN n : n[i] # NoTrx => Active(u, n[i])
    <3> SUFFICES ASSUME NEW i \in DOMAIN n, n[i] # NoTrx PROVE Active(u, n[i])
      OBVIOUS
    <3>1. i \in DOMAIN m \ {id} /\ n[i] = m[i] /\ m[i] # x
      BY <1>2, <1>4
    <3>2. Active(t, m[i])
      BY <3>1 DEF Mapped
    <3> QED BY <1>3, <3>1, <3>2 DEF Active
  <2>2. \A y \in ActiveTrx(u) : \E i \in DOMAIN n : n[i] = y
    <3> SUFFICES ASSUME NEW y \in ActiveTrx(u) PROVE \E i \in DOMAIN n : n[i] = y
      OBVIOUS
    <3>1. y # x /\ y \in ActiveTrx(t)
      BY <1>3 DEF ActiveTrx
    <3>2. PICK i \in DOMAIN m : m[i] = y
      BY <3>1 DEF Mapped
    <3>3. i # id
      BY <3>1, <3>2 DEF x
    <3> QED BY <1>2, <3>2, <3>3
  <2>3. \A i, k \in DOMAIN n : n[i] = n[k] /\ n[i] # NoTrx => i = k
    BY <1>2 DEF Mapped
  <2> QED BY <1>1, <1>2, <1>3, <2>1, <2>2, <2>3 DEF Mapped
<1>6. \A y \in DOMAIN t :
        \/ u[y] = t[y]
        \/ t[y] = "active" /\ u[y] = "committed" /\ \E i \in C \intersect DOMAIN m : m[i] = y
        \/ t[y] = "active" /\ u[y] = "rolled back" /\ \E i \in R \intersect DOMAIN m : m[i] = y
  BY <1>1, <1>3 DEF x, EndedIn
<1>7. \A i \in DOMAIN m : m[i] # NoTrx /\ Active(u, m[i]) => n[i] = m[i]
  BY <1>2, <1>3 DEF Active, x
<1>8. Len(t) <= Len(u)
  BY <1>3
<1> QED BY <1>2, <1>5, <1>6, <1>7, <1>8 DEF Evolves, n, u, x

\* A handle in a place that is free or new.
Put(m, id, x) == [i \in DOMAIN m \union {id} |-> IF i = id THEN x ELSE m[i]]

\* isc_start_transaction.
LEMMA StartEvolves ==
  ASSUME NEW m, NEW t, Mapped(m, t), NEW id, id = Len(m) + 1 \/ (id \in DOMAIN m /\ m[id] = NoTrx),
         NEW s \in Starts(t)
  PROVE  /\ Evolves(m, t, Put(m, id, s.handle), s.trx, {id}, {}, {})
         /\ DOMAIN Put(m, id, s.handle) = DOMAIN m \union {id}
<1> DEFINE h == s.handle
           u == s.trx
           n == Put(m, id, h)
<1>1. /\ DOMAIN m = 1 .. Len(m) /\ Len(m) \in Nat \ {0}
      /\ DOMAIN t = 1 .. Len(t) /\ Len(t) \in Nat
      /\ m \in Seq(Nat) /\ t \in Seq(TrxStates) /\ Own \in DOMAIN m
  BY MapFacts DEF Mapped
<1>2. h = Len(t) + 1 /\ u = Append(t, "active")
  BY DEF Starts
<1>3. /\ u \in Seq(TrxStates) /\ Len(u) = Len(t) + 1 /\ DOMAIN u = 1 .. Len(t) + 1
      /\ u[h] = "active" /\ \A y \in DOMAIN t : u[y] = t[y]
  <2>1. "active" \in TrxStates
    BY DEF TrxStates
  <2> QED BY <1>1, <1>2, <2>1, AppendProperties
<1>4. /\ DOMAIN n = DOMAIN m \union {id} /\ n[id] = h
      /\ \A i \in DOMAIN m \ {id} : n[i] = m[i]
  BY DEF Put
<1>5. h \in Nat /\ h > Len(t) /\ h # NoTrx /\ h \notin DOMAIN t /\ h \in DOMAIN u
  BY <1>1, <1>2, <1>3 DEF NoTrx
<1> HIDE DEF h, u, n
<1>6. n \in Seq(Nat)
  <2>1. PICK k \in Nat : DOMAIN n = 1 .. k
    <3>1. CASE id = Len(m) + 1
      <4>1. DOMAIN n = 1 .. Len(m) + 1
        BY <1>1, <1>4, <3>1
      <4> QED BY <1>1, <4>1
    <3>2. CASE id \in DOMAIN m
      BY <1>1, <1>4, <3>2
    <3> QED BY <3>1, <3>2
  <2>2. \A i \in DOMAIN n : n[i] \in Nat
    BY <1>1, <1>4, <1>5
  <2>3. n = [i \in 1 .. k |-> n[i]]
    BY <2>1 DEF n, Put
  <2> QED BY <2>1, <2>2, <2>3
<1>7. \A i \in DOMAIN m \ {id} : m[i] # h
  BY <1>1, <1>2, MapFacts DEF NoTrx
<1>8. Mapped(n, u)
  <2>1. \A i \in DOMAIN n : n[i] # NoTrx => Active(u, n[i])
    <3> SUFFICES ASSUME NEW i \in DOMAIN n, n[i] # NoTrx PROVE Active(u, n[i])
      OBVIOUS
    <3>1. CASE i = id
      BY <1>3, <1>4, <1>5, <3>1 DEF Active
    <3>2. CASE i # id
      <4>1. i \in DOMAIN m /\ n[i] = m[i]
        BY <1>4, <3>2
      <4>2. Active(t, m[i])
        BY <4>1 DEF Mapped
      <4> QED BY <1>1, <1>3, <4>1, <4>2 DEF Active
    <3> QED BY <3>1, <3>2
  <2>2. \A y \in ActiveTrx(u) : \E i \in DOMAIN n : n[i] = y
    <3> SUFFICES ASSUME NEW y \in ActiveTrx(u) PROVE \E i \in DOMAIN n : n[i] = y
      OBVIOUS
    <3>1. CASE y = h
      BY <1>4, <3>1
    <3>2. CASE y # h
      <4>1. y \in DOMAIN t
        BY <1>1, <1>2, <1>3, <3>2 DEF ActiveTrx, h
      <4>2. y \in ActiveTrx(t) /\ y # NoTrx
        BY <1>1, <1>3, <4>1 DEF ActiveTrx, NoTrx
      <4>3. PICK i \in DOMAIN m : m[i] = y
        BY <4>2 DEF Mapped
      <4>4. i # id
        BY <1>1, <4>2, <4>3
      <4> QED BY <1>4, <4>3, <4>4
    <3> QED BY <3>1, <3>2
  <2>3. \A i, k \in DOMAIN n : n[i] = n[k] /\ n[i] # NoTrx => i = k
    BY <1>4, <1>7 DEF Mapped
  <2>4. Own \in DOMAIN n
    BY <1>1, <1>4
  <2> QED BY <1>3, <1>6, <2>1, <2>2, <2>3, <2>4 DEF Mapped
<1>9. \A i \in DOMAIN m : m[i] # NoTrx /\ Active(u, m[i]) => n[i] = m[i]
  BY <1>1, <1>4
<1>10. \A i \in DOMAIN n : n[i] # NoTrx => (i \in DOMAIN m /\ n[i] = m[i]) \/ (i \in {id} /\ n[i] > Len(t))
  BY <1>4, <1>5
<1>11. DOMAIN m \subseteq DOMAIN n /\ Len(t) <= Len(u)
  BY <1>1, <1>3, <1>4
<1> QED BY <1>3, <1>4, <1>8, <1>9, <1>10, <1>11 DEF Evolves, h, u, n

-----------------------------------------------------------------------------
(* The methods of the connection                                           *)

IsWorld(w) == DOMAIN w = {"map", "trx", "st"} /\ Mapped(w.map, w.trx)

Goes(w, v, T, C, R) == IsWorld(v) /\ Evolves(w.map, w.trx, v.map, v.trx, T, C, R)

LEMMA GoesSame ==
  ASSUME NEW w, IsWorld(w), NEW T, NEW C, NEW R
  PROVE  Goes(w, w, T, C, R)
BY EvolvesSame DEF Goes, IsWorld

LEMMA GoesTwice ==
  ASSUME NEW w, IsWorld(w), NEW T, NEW C, NEW R,
         NEW v, Goes(w, v, T, C, R), NEW u, Goes(v, u, T, C, R)
  PROVE  Goes(w, u, T, C, R)
BY EvolvesTwice DEF Goes, IsWorld

LEMMA GoesWithin ==
  ASSUME NEW w, NEW v, NEW T, NEW C, NEW R, Goes(w, v, T, C, R),
         NEW S, NEW D, NEW Q, T \subseteq S, C \intersect DOMAIN w.map \subseteq D, R \intersect DOMAIN w.map \subseteq Q
  PROVE  Goes(w, v, S, D, Q)
BY EvolvesWithin DEF Goes

\* A new statement, nothing else.
LEMMA GoesStmt ==
  ASSUME NEW w, IsWorld(w), NEW v, DOMAIN v = {"map", "trx", "st"}, v.map = w.map, v.trx = w.trx,
         NEW T, NEW C, NEW R
  PROVE  Goes(w, v, T, C, R)
<1>1. Evolves(w.map, w.trx, w.map, w.trx, T, C, R)
  BY EvolvesSame DEF IsWorld
<1> QED BY <1>1 DEF Goes, IsWorld

\* Commit() or Rollback() of the transaction in place id.
Concluded(o, w, id, C, R) ==
  /\ o.ret \in {Ok, Throw}
  /\ Goes(w, o.w, {}, C, R)
  /\ o.w.st = w.st /\ DOMAIN o.w.map = DOMAIN w.map
  /\ \A i \in DOMAIN w.map \ {id} : o.w.map[i] = w.map[i]
  /\ o.ret = Ok => id \in DOMAIN w.map /\ o.w.map[id] = NoTrx
  /\ o.ret = Throw => o.w = w

LEMMA EndTrxConcludes ==
  ASSUME NEW w, IsWorld(w), NEW id, id \in DOMAIN w.map, w.map[id] # NoTrx,
         NEW how, NEW C, NEW R, EndedIn(how, id, C, R),
         NEW o, o.w = EndTrx(w, id, how), o.ret = Ok
  PROVE  Concluded(o, w, id, C, R)
<1> DEFINE v == EndTrx(w, id, how)
<1>1. /\ DOMAIN v = {"map", "trx", "st"} /\ v.st = w.st
      /\ v.map = [w.map EXCEPT ![id] = NoTrx]
      /\ v.trx = Ended(w.trx, w.map[id], how)
  BY DEF EndTrx, Handle, IsWorld
<1> HIDE DEF v
<1>2. Evolves(w.map, w.trx, v.map, v.trx, {}, C, R)
  BY <1>1, EndEvolves DEF IsWorld
<1>3. IsWorld(v) /\ Goes(w, v, {}, C, R)
  BY <1>1, <1>2 DEF IsWorld, Goes, Evolves
<1>4. DOMAIN v.map = DOMAIN w.map /\ v.map[id] = NoTrx /\ \A i \in DOMAIN w.map \ {id} : v.map[i] = w.map[i]
  BY <1>1
<1> QED BY <1>1, <1>3, <1>4, Words DEF Concluded, v

LEMMA NothingConcluded ==
  ASSUME NEW w, IsWorld(w), NEW id, NEW C, NEW R, NEW o, o.w = w,
         o.ret = Throw \/ (o.ret = Ok /\ id \in DOMAIN w.map /\ w.map[id] = NoTrx)
  PROVE  Concluded(o, w, id, C, R)
BY GoesSame, Words DEF Concluded

LEMMA GivesFacts ==
  ASSUME NEW w, NEW r
  PROVE  /\ Gives(w, r) = {[w |-> w, ret |-> r]}
         /\ \A o \in Gives(w, r) : o.w = w /\ o.ret = r
BY DEF Gives

LEMMA CommitConcludes ==
  ASSUME NEW w, IsWorld(w), NEW id, NEW o \in Commit(w, id), NEW C, NEW R, id \in C
  PROVE  Concluded(o, w, id, C, R)
<1>1. CASE ~Known(w, id)
  <2>1. o \in Gives(w, Throw)
    BY <1>1 DEF Commit
  <2> QED BY <2>1, GivesFacts, NothingConcluded
<1>2. CASE Known(w, id) /\ w.map[id] = NoTrx
  <2>1. o \in Gives(w, Ok)
    BY <1>2 DEF Commit, Handle
  <2> QED BY <1>2, <2>1, GivesFacts, NothingConcluded DEF Known
<1>3. CASE Known(w, id) /\ w.map[id] # NoTrx
  <2>1. o \in Gives(w, Throw) \/ o \in Gives(EndTrx(w, id, "committed"), Ok)
    BY <1>3 DEF Commit, Handle
  <2>2. EndedIn("committed", id, C, R)
    BY DEF EndedIn
  <2>3. CASE o \in Gives(w, Throw)
    BY <2>3, GivesFacts, NothingConcluded
  <2>4. CASE o \in Gives(EndTrx(w, id, "committed"), Ok)
    BY <1>3, <2>2, <2>4, GivesFacts, EndTrxConcludes DEF Known
  <2> QED BY <2>1, <2>3, <2>4
<1> QED BY <1>1, <1>2, <1>3

IsOutcome(o) == DOMAIN o = {"w", "ret"}

LEMMA GivesOutcome == ASSUME NEW w, NEW r, NEW o \in Gives(w, r) PROVE IsOutcome(o)
BY DEF IsOutcome, Gives

LEMMA RollbackOutcome == ASSUME NEW w, NEW id, NEW o \in Rollback(w, id) PROVE IsOutcome(o)
BY GivesOutcome DEF Rollback

LEMMA RollbackConcludes ==
  ASSUME NEW w, IsWorld(w), NEW id, NEW o \in Rollback(w, id), NEW C, NEW R, id \in R
  PROVE  Concluded(o, w, id, C, R)
<1>1. CASE ~Known(w, id)
  <2>1. o \in Gives(w, Throw)
    BY <1>1 DEF Rollback
  <2> QED BY <1>1, <2>1, GivesFacts, NothingConcluded
<1>2. CASE Known(w, id) /\ w.map[id] = NoTrx
  <2>1. o \in Gives(w, Ok)
    BY <1>2 DEF Rollback, Handle
  <2> QED BY <1>2, <2>1, GivesFacts, NothingConcluded DEF Known
<1>3. CASE Known(w, id) /\ w.map[id] # NoTrx
  <2>1. o \in Gives(w, Throw) \/ o \in Gives(EndTrx(w, id, "rolled back"), Ok)
    BY <1>3 DEF Rollback, Handle
  <2>2. EndedIn("rolled back", id, C, R)
    BY DEF EndedIn
  <2> DEFINE v == EndTrx(w, id, "rolled back")
  <2>3. CASE o \in Gives(w, Throw)
    BY <2>3, GivesFacts, NothingConcluded
  <2>4. CASE o \in Gives(v, Ok)
    <3>1. o.ret = Ok /\ o.w = v
      <4> HIDE DEF v
      <4> QED BY <2>4, GivesFacts
    <3> QED BY <1>3, <2>2, <3>1, EndTrxConcludes DEF Known
  <2> QED BY <2>1, <2>3, <2>4
<1> QED BY <1>1, <1>2, <1>3

\* In a destructor: when the server refuses, nothing has changed and the program ends.
LEMMA DiscardConcludes ==
  ASSUME NEW w, IsWorld(w), NEW id, Known(w, id), NEW a \in Discard(w, id), NEW C, NEW R, id \in R
  PROVE  \/ a.ret = Ok /\ Concluded(a, w, id, C, R)
         \/ a.ret = Terminated /\ a.w = w
<1>1. PICK o \in Rollback(w, id) : a = [o EXCEPT !.ret = IF @ # Throw THEN @ ELSE Terminated]
  BY DEF Discard
<1>2. IsOutcome(o) /\ Concluded(o, w, id, C, R)
  BY RollbackOutcome, RollbackConcludes
<1>3. CASE o.ret = Throw
  <2>1. a.ret = Terminated /\ a.w = o.w
    BY <1>1, <1>2, <1>3 DEF IsOutcome
  <2> QED BY <1>2, <1>3, <2>1 DEF Concluded
<1>4. CASE o.ret # Throw
  <2>1. o.ret = Ok
    BY <1>2, <1>4 DEF Concluded
  <2>2. a.ret = Ok /\ a.w = o.w
    BY <1>1, <1>2, <2>1, <1>4 DEF IsOutcome
  <2> QED BY <1>2, <2>1, <2>2, Words DEF Concluded
<1> QED BY <1>3, <1>4

\* makeTrxInternal() for the place id.
Begun(o, w, id) ==
  /\ o.ret \in {Ok, Throw}
  /\ Goes(w, o.w, {id}, {}, {})
  /\ o.w.st = w.st
  /\ o.ret = Throw => o.w = w
  /\ o.ret = Ok => DOMAIN o.w.map = DOMAIN w.map \union {id} /\ o.w.map[id] # NoTrx

LEMMA MakeTrxBegins ==
  ASSUME NEW w, IsWorld(w), NEW id, id = Len(w.map) + 1 \/ (id \in DOMAIN w.map /\ w.map[id] = NoTrx),
         dbc.m_dbh # NoHandle, NEW o \in MakeTrxInternal(w, id)
  PROVE  Begun(o, w, id)
<1>1. CASE o \in Gives(w, Throw)
  <2>1. o.w = w /\ o.ret = Throw
    BY <1>1, GivesFacts
  <2> QED BY <2>1, GoesSame, Words DEF Begun
<1>2. CASE o \notin Gives(w, Throw)
  <2>1. PICK s \in Starts(w.trx) :
          o = [w |-> [w EXCEPT !.trx = s.trx,
                               !.map = [i \in DOMAIN w.map \union {id} |->
                                          IF i = id THEN s.handle ELSE w.map[i]]],
               ret |-> Ok]
    BY <1>2 DEF MakeTrxInternal, IsWorld
  <2> DEFINE n == Put(w.map, id, s.handle)
             v == [w EXCEPT !.trx = s.trx, !.map = n]
  <2>2. o.w = v /\ o.ret = Ok
    BY <2>1 DEF Put
  <2>3. DOMAIN v = {"map", "trx", "st"} /\ v.map = n /\ v.trx = s.trx /\ v.st = w.st
    BY DEF IsWorld
  <2>4. Evolves(w.map, w.trx, n, s.trx, {id}, {}, {}) /\ DOMAIN n = DOMAIN w.map \union {id}
    <3> DEFINE m == w.map
               t == w.trx
    <3>1. Mapped(m, t) /\ s \in Starts(t) /\ (id = Len(m) + 1 \/ (id \in DOMAIN m /\ m[id] = NoTrx))
      BY DEF IsWorld
    <3> HIDE DEF m, t
    <3>2. /\ Evolves(m, t, Put(m, id, s.handle), s.trx, {id}, {}, {})
          /\ DOMAIN Put(m, id, s.handle) = DOMAIN m \union {id}
      BY <3>1, StartEvolves
    <3> QED BY <3>2 DEF m, t
  <2>5. n[id] = s.handle /\ s.handle # NoTrx
    <3>1. s.handle = Len(w.trx) + 1 /\ Len(w.trx) \in Nat
      BY MapFacts DEF Starts, IsWorld
    <3> QED BY <3>1 DEF Put, NoTrx
  <2> HIDE DEF n, v
  <2>6. Goes(w, v, {id}, {}, {})
    BY <2>3, <2>4 DEF Goes, IsWorld, Evolves
  <2> QED BY <2>2, <2>3, <2>4, <2>5, <2>6, Words DEF Begun
<1> QED BY <1>1, <1>2

-----------------------------------------------------------------------------
(* Statements                                                              *)

\* A statement but for the transactions it uses.
StmtBase(st, t, h) ==
  /\ st \in Statements /\ "BAD" \notin st.m_cursorstate
  /\ ResultsFine(st, h)
  /\ \A x \in StreamsOf(st) : Active(t, x)

LEMMA StmtFacts ==
  ASSUME NEW st \in Statements
  PROVE  /\ st.alive \in BOOLEAN /\ st.m_cursorstate \in SUBSET CursorFlags
         /\ st.m_resultsets \in Seq(Results) /\ st.m_localTrx \in Nat /\ st.m_currentTrx \in Nat
         /\ st.owing \in BOOLEAN
         /\ Len(st.m_resultsets) \in Nat /\ DOMAIN st.m_resultsets = 1 .. Len(st.m_resultsets)
<1>1. /\ st.alive \in BOOLEAN /\ st.m_cursorstate \in SUBSET CursorFlags
      /\ st.m_resultsets \in Seq(Results) /\ st.m_localTrx \in Nat /\ st.m_currentTrx \in Nat
      /\ st.owing \in BOOLEAN
  BY DEF Statements
<1> QED BY <1>1

LEMMA NewStmtFine ==
  /\ NewStmt \in Statements /\ NewStmt.alive /\ NewStmt.m_resultsets = <<>>
  /\ NewStmt.m_localTrx = Invalid /\ NewStmt.m_currentTrx = Invalid
  /\ ~NewStmt.owing /\ ~IsStmtPrepared(NewStmt) /\ StreamsOf(NewStmt) = {}
  /\ \A m, t, h : StmtFine(NewStmt, m, t, h)
<1>1. /\ NewStmt.alive = TRUE /\ NewStmt.m_resultsets = <<>> /\ NewStmt.m_cursorstate = {}
      /\ NewStmt.m_localTrx = Invalid /\ NewStmt.m_currentTrx = Invalid
      /\ NewStmt.owing = FALSE
  BY DEF NewStmt, CLOSED
<1>2. NewStmt \in Statements
  BY EmptySeq DEF NewStmt, Statements, CLOSED, Invalid
<1>3. StreamsOf(NewStmt) = {}
  BY <1>1, EmptySeq DEF StreamsOf
<1>4. \A m, t, h : StmtFine(NewStmt, m, t, h)
  BY <1>1, <1>2, <1>3, EmptySeq DEF StmtFine, ResultsFine, LocalFine, HasLocalTrx
<1> QED BY <1>1, <1>2, <1>3, <1>4 DEF IsStmtPrepared

\* The transactions of the places ids have no streams in st.
StreamFree(ids, m, st) == \A id \in ids \intersect DOMAIN m : m[id] \notin StreamsOf(st)

\* What stays true of a statement while transactions start and end.
LEMMA StmtStays ==
  ASSUME NEW st, NEW m, NEW t, NEW h, StmtFine(st, m, t, h), Mapped(m, t),
         NEW n, NEW u, NEW T, NEW C, NEW R, Evolves(m, t, n, u, T, C, R),
         StreamFree(C \union R, m, st),
         st.m_localTrx \in T \ {Invalid} =>
           st.alive /\ st.m_resultsets # <<>> /\ st.m_currentTrx = st.m_localTrx
  PROVE  StmtFine(st, n, u, h)
<1>0. /\ Mapped(n, u) /\ DOMAIN t = 1 .. Len(t) /\ DOMAIN u = 1 .. Len(u)
      /\ Len(t) \in Nat /\ Len(u) \in Nat /\ Len(t) <= Len(u)
  BY MapFacts DEF Evolves
<1>1. \A x \in StreamsOf(st) : Active(u, x)
  <2> SUFFICES ASSUME NEW x \in StreamsOf(st) PROVE Active(u, x)
    OBVIOUS
  <2>1. x \in DOMAIN t /\ t[x] = "active"
    BY DEF StmtFine, Active
  <2>2. u[x] = t[x]
    <3>1. \A id \in (C \union R) \intersect DOMAIN m : m[id] # x
      BY DEF StreamFree
    <3>2. /\ ~\E id \in C \intersect DOMAIN m : m[id] = x
          /\ ~\E id \in R \intersect DOMAIN m : m[id] = x
      BY <3>1
    <3> QED BY <2>1, <3>2 DEF Evolves
  <2>3. x \in DOMAIN u
    BY <1>0, <2>1
  <2> QED BY <2>1, <2>2, <2>3 DEF Active
<1>2. LocalFine(st, n)
  BY DEF StmtFine, LocalFine, HasLocalTrx, Evolves
<1> QED BY <1>1, <1>2 DEF StmtFine

\* What the texts of a statement are.
TextsOf(st) == {Kind[st.m_resultsets[i].m_sql] : i \in DOMAIN st.m_resultsets}

\* A resultset is appended.
LEMMA AppendedBase ==
  ASSUME NEW st, NEW t, NEW h, StmtBase(st, t, h), ~IsStmtPrepared(st),
         NEW rs, ResultFine(rs, h), rs.blob = NoBlob,
         NEW q, q \in Statements, "BAD" \notin q.m_cursorstate,
         q.m_resultsets = Append(st.m_resultsets, rs),
         IsPrepared(rs) => IsStmtPrepared(q)
  PROVE  /\ StmtBase(q, t, h) /\ StreamsOf(q) \subseteq StreamsOf(st)
         /\ q.m_resultsets # <<>> /\ TextsOf(q) \subseteq TextsOf(st) \union {Kind[rs.m_sql]}
<1> DEFINE l == st.m_resultsets
           k == q.m_resultsets
<1>1. l \in Seq(Results) /\ rs \in Results /\ Len(l) \in Nat /\ DOMAIN l = 1 .. Len(l)
  BY StmtFacts DEF StmtBase, ResultFine
<1>2. /\ Len(k) = Len(l) + 1 /\ DOMAIN k = 1 .. Len(l) + 1
      /\ k[Len(l) + 1] = rs /\ \A i \in 1 .. Len(l) : k[i] = l[i]
  <2>1. k = Append(l, rs)
    OBVIOUS
  <2> HIDE DEF l, k
  <2> QED BY <1>1, <2>1, AppendProperties
<1> HIDE DEF l, k
<1>3. ResultsFine(q, h)
  <2> SUFFICES ASSUME NEW i \in DOMAIN k
               PROVE  ResultFine(k[i], h) /\ (IsPrepared(k[i]) => i = Len(k) /\ IsStmtPrepared(q))
    BY DEF ResultsFine, k
  <2>1. CASE i = Len(l) + 1
    BY <1>2, <2>1
  <2>2. CASE i \in 1 .. Len(l)
    BY <1>1, <1>2, <2>2 DEF StmtBase, ResultsFine, l
  <2> QED BY <1>1, <1>2, <2>1, <2>2
<1>4. StreamsOf(q) \subseteq StreamsOf(st)
  <2> SUFFICES ASSUME NEW x \in StreamsOf(q) PROVE x \in StreamsOf(st)
    OBVIOUS
  <2>1. PICK i \in DOMAIN k : k[i].blob # NoBlob /\ x = k[i].blob.trx
    BY DEF StreamsOf, k
  <2>2. i \in 1 .. Len(l) /\ k[i] = l[i]
    BY <1>1, <1>2, <2>1
  <2> QED BY <1>1, <2>1, <2>2 DEF StreamsOf, l
<1>5. k # <<>>
  BY <1>1, <1>2, EmptySeq
<1>6. TextsOf(q) \subseteq TextsOf(st) \union {Kind[rs.m_sql]}
  BY <1>1, <1>2 DEF TextsOf, l, k
<1> QED BY <1>3, <1>4, <1>5, <1>6 DEF StmtBase, k

\* prepare(sql, trx) in the transaction of id.
PreparedIn(o, w, sql, id, h) ==
  /\ o.ret \in {Ok, Throw}
  /\ DOMAIN o.w = {"map", "trx", "st"} /\ o.w.map = w.map /\ o.w.trx = w.trx
  /\ StmtBase(o.w.st, w.trx, h) /\ StreamsOf(o.w.st) \subseteq StreamsOf(w.st)
  /\ TextsOf(o.w.st) \subseteq TextsOf(w.st) \union {Kind[sql]}
  /\ o.w.st.alive = w.st.alive /\ o.w.st.m_localTrx = w.st.m_localTrx
  /\ o.w.st.owing = w.st.owing
  /\ o.w.st = w.st \/ o.w.st.m_resultsets # <<>>
  /\ o.w.st = w.st \/ o.w.st.m_currentTrx = IF w.st.m_currentTrx = Invalid THEN id ELSE w.st.m_currentTrx
  /\ w.st.m_currentTrx = Invalid /\ ~IsStmtPrepared(w.st) =>
       o.w.st.m_currentTrx = id /\ o.w.st.m_resultsets # <<>>

LEMMA StmtStateSet ==
  ASSUME NEW w, DOMAIN w = {"map", "trx", "st"}, w.st \in Statements, NEW s, s \in {"PREPARED", "OPEN"}
  PROVE  LET v == SetStmtState(w, s)
         IN  /\ DOMAIN v = {"map", "trx", "st"} /\ v.map = w.map /\ v.trx = w.trx
             /\ v.st \in Statements /\ v.st = [w.st EXCEPT !.m_cursorstate = Mask(s)]
             /\ v.st.m_cursorstate = Mask(s) /\ "BAD" \notin v.st.m_cursorstate
             /\ v.st.m_resultsets = w.st.m_resultsets /\ v.st.alive = w.st.alive
             /\ v.st.m_localTrx = w.st.m_localTrx /\ v.st.m_currentTrx = w.st.m_currentTrx
             /\ v.st.owing = w.st.owing
             /\ IsStmtPrepared(v.st)
<1> DEFINE m == Mask(s)
           q == [w.st EXCEPT !.m_cursorstate = m]
           v == SetStmtState(w, s)
<1>1. m \in SUBSET CursorFlags /\ "BAD" \notin m /\ "PREPARED" \in m
  BY Masks DEF CursorFlags
<1>2. v = [w EXCEPT !.st = q]
  BY DEF SetStmtState, SetCursorState
<1>3. DOMAIN v = {"map", "trx", "st"} /\ v.map = w.map /\ v.trx = w.trx /\ v.st = q
  BY <1>2
<1> HIDE DEF m, v
<1>4. /\ q \in Statements /\ q.m_cursorstate = m
      /\ q.m_resultsets = w.st.m_resultsets /\ q.alive = w.st.alive
      /\ q.m_localTrx = w.st.m_localTrx /\ q.m_currentTrx = w.st.m_currentTrx
      /\ q.owing = w.st.owing
  BY <1>1 DEF Statements
<1> QED BY <1>1, <1>3, <1>4 DEF IsStmtPrepared, m, v

LEMMA AppendExcept ==
  ASSUME NEW S, NEW q, q \in Seq(S), NEW a, a \in S, NEW b, b \in S
  PROVE  [Append(q, a) EXCEPT ![Len(q) + 1] = b] = Append(q, b)
<1> DEFINE n == Len(q) + 1
           u == Append(q, a)
           v == Append(q, b)
           x == [u EXCEPT ![n] = b]
<1>1. /\ u \in Seq(S) /\ Len(u) = n /\ \A i \in 1 .. Len(q) : u[i] = q[i]
      /\ v \in Seq(S) /\ Len(v) = n /\ \A i \in 1 .. Len(q) : v[i] = q[i]
      /\ v[n] = b /\ Len(q) \in Nat
  BY AppendProperties
<1>2. DOMAIN u = 1 .. n /\ DOMAIN v = 1 .. n /\ n \in 1 .. n /\ 1 .. n = 1 .. Len(q) \union {n}
  BY <1>1
<1> HIDE DEF u, v, n
<1>3. /\ x \in Seq(S) /\ Len(x) = n /\ x[n] = b /\ \A i \in 1 .. n \ {n} : x[i] = u[i]
  BY <1>1, <1>2, ExceptFacts
<1>4. \A i \in 1 .. n : x[i] = v[i]
  BY <1>1, <1>2, <1>3
<1> HIDE DEF x
<1>5. x = v
  BY <1>1, <1>3, <1>4, SeqEqual
<1> QED BY <1>5 DEF x, u, v, n

LEMMA PrepareInPrepares ==
  ASSUME NEW w, IsWorld(w), StmtBase(w.st, w.trx, dbc.m_dbh), Connected(dbc),
         NEW sql \in Queries, NEW id \in Nat, NEW o \in StmtPrepareIn(w, sql, id)
  PROVE  PreparedIn(o, w, sql, id, dbc.m_dbh)
<1> DEFINE h == dbc.m_dbh
           st == w.st
           l == st.m_resultsets
           n == Len(l) + 1
           init == ResultInit(sql)
           added == [w EXCEPT !.st.m_resultsets = Append(@, init)]
           bound == [added EXCEPT !.st.m_currentTrx = id]
           known == Known(w, id)
           handle == IF known THEN Handle(w, id) ELSE NoTrx
<1>1. /\ DOMAIN w = {"map", "trx", "st"} /\ st \in Statements /\ "BAD" \notin st.m_cursorstate
      /\ l \in Seq(Results) /\ Len(l) \in Nat /\ DOMAIN l = 1 .. Len(l)
  BY StmtFacts DEF IsWorld, StmtBase
<1>2. /\ ResultFine(init, h) /\ init.blob = NoBlob /\ ~IsPrepared(init) /\ init.m_sql = sql
      /\ init \in Results
  BY InitFine DEF ResultFine
<1>3. StmtPrepareIn(w, sql, id) =
        IF IsStmtPrepared(st) THEN Gives(w, Throw)
        ELSE IF st.m_currentTrx # Invalid THEN Gives(added, Throw)
        ELSE Then({[w |-> [bound EXCEPT !.st.m_resultsets[n] = p.rs], ret |-> p.ret] :
                     p \in RsPrepare(bound.st.m_resultsets[n], dbc, known, handle)},
                  LAMBDA v : Gives(SetStmtState(v, "PREPARED"), Ok))
  BY DEF StmtPrepareIn
<1>4. CASE IsStmtPrepared(st)
  <2>1. o.w = w /\ o.ret = Throw
    BY <1>3, <1>4, GivesFacts
  <2> QED BY <1>1, <1>4, <2>1 DEF PreparedIn
<1>5. CASE ~IsStmtPrepared(st) /\ st.m_currentTrx # Invalid
  <2> DEFINE k == Append(l, init)
             q == [st EXCEPT !.m_resultsets = k]
  <2>1. o.ret = Throw /\ o.w = added
    <3> HIDE DEF added
    <3>1. o \in Gives(added, Throw)
      BY <1>3, <1>5
    <3> QED BY <3>1, GivesFacts
  <2>2. added = [w EXCEPT !.st = q]
    OBVIOUS
  <2>3. k \in Seq(Results)
    BY <1>1, <1>2
  <2> HIDE DEF k, added
  <2>4. /\ q \in Statements /\ q.m_resultsets = k /\ q.m_cursorstate = st.m_cursorstate
        /\ q.alive = st.alive /\ q.m_localTrx = st.m_localTrx /\ q.owing = st.owing
        /\ q.m_currentTrx = st.m_currentTrx
    BY <1>1, <2>3 DEF Statements
  <2> HIDE DEF q
  <2>5. DOMAIN added = {"map", "trx", "st"} /\ added.map = w.map /\ added.trx = w.trx /\ added.st = q
    BY <1>1, <2>2
  <2>6. /\ StmtBase(q, w.trx, h) /\ StreamsOf(q) \subseteq StreamsOf(st)
        /\ q.m_resultsets # <<>> /\ TextsOf(q) \subseteq TextsOf(st) \union {Kind[sql]}
    <3>1. q.m_resultsets = Append(st.m_resultsets, init)
      BY <2>4 DEF k
    <3> HIDE DEF init, h, l, st
    <3>2. StmtBase(st, w.trx, h) /\ ~IsStmtPrepared(st)
      BY <1>5 DEF st, h
    <3> QED BY <1>1, <1>2, <2>4, <3>1, <3>2, AppendedBase
  <2> QED BY <1>5, <2>1, <2>4, <2>5, <2>6 DEF PreparedIn
<1>6. CASE ~IsStmtPrepared(st) /\ st.m_currentTrx = Invalid
  <2> DEFINE a == [st EXCEPT !.m_resultsets = Append(l, init)]
             b == [a EXCEPT !.m_currentTrx = id]
  <2>1. bound = [w EXCEPT !.st = b]
    BY <1>1
  <2>2. Append(l, init) \in Seq(Results) /\ Append(l, init)[n] = init
    BY <1>1, <1>2, AppendProperties
  <2>3. /\ b \in Statements /\ b.m_resultsets = Append(l, init) /\ b.m_cursorstate = st.m_cursorstate
        /\ b.alive = st.alive /\ b.m_localTrx = st.m_localTrx /\ b.owing = st.owing
        /\ b.m_currentTrx = id
    BY <1>1, <2>2 DEF Statements
  <2>4. DOMAIN bound = {"map", "trx", "st"} /\ bound.map = w.map /\ bound.trx = w.trx /\ bound.st = b
    BY <1>1, <2>1
  <2> HIDE DEF a, b, bound
  <2>5. bound.st.m_resultsets[n] = init
    BY <2>2, <2>3, <2>4
  <2>6. PICK p \in RsPrepare(init, dbc, known, handle) :
          LET v == [bound EXCEPT !.st.m_resultsets[n] = p.rs]
          IN  IF p.ret = Ok THEN o.w = SetStmtState(v, "PREPARED") /\ o.ret = Ok
              ELSE o.w = v /\ o.ret = p.ret
    <3> DEFINE E == {[w |-> [bound EXCEPT !.st.m_resultsets[n] = p.rs], ret |-> p.ret] :
                        p \in RsPrepare(init, dbc, known, handle)}
    <3> HIDE DEF init
    <3>1. o \in Then(E, LAMBDA v : Gives(SetStmtState(v, "PREPARED"), Ok))
      BY <1>3, <1>6, <2>5
    <3> HIDE DEF handle, known, n, E
    <3>2. PICK e \in E : IF e.ret = Ok THEN o \in Gives(SetStmtState(e.w, "PREPARED"), Ok) ELSE o = e
      BY <3>1 DEF Then
    <3>3. PICK p \in RsPrepare(init, dbc, known, handle) :
            e = [w |-> [bound EXCEPT !.st.m_resultsets[n] = p.rs], ret |-> p.ret]
      BY DEF E
    <3> DEFINE v == [bound EXCEPT !.st.m_resultsets[n] = p.rs]
    <3>4. e.w = v /\ e.ret = p.ret
      BY <3>3
    <3> HIDE DEF v
    <3>5. IF p.ret = Ok THEN o.w = SetStmtState(v, "PREPARED") /\ o.ret = Ok
          ELSE o.w = v /\ o.ret = p.ret
      BY <3>2, <3>4, GivesFacts
    <3> QED BY <3>5 DEF v
  <2> HIDE DEF handle, known
  <2>7. Prepared(p, sql, h)
    BY PrepareUsed
  <2> DEFINE rs == p.rs
             k == Append(l, rs)
             q == [b EXCEPT !.m_resultsets = k]
             v == [bound EXCEPT !.st.m_resultsets[n] = rs]
  <2>8. /\ ResultFine(rs, h) /\ rs.blob = NoBlob /\ rs.m_sql = sql
        /\ IsPrepared(rs) <=> p.ret = Ok
        /\ rs \in Results /\ p.ret \in {Ok, Throw}
    BY <2>7 DEF Prepared, ResultFine
  <2> HIDE DEF rs, init, h
  <2>9. k \in Seq(Results)
    BY <1>1, <2>8
  <2>10. [Append(l, init) EXCEPT ![n] = rs] = k
    <3> HIDE DEF l, added
    <3>1. l \in Seq(Results) /\ init \in Results /\ rs \in Results
      BY <1>1, <1>2, <2>8
    <3>2. [Append(l, init) EXCEPT ![Len(l) + 1] = rs] = Append(l, rs)
      BY <3>1, AppendExcept
    <3> QED BY <3>2
  <2>11. v = [bound EXCEPT !.st = q]
    BY <2>3, <2>4, <2>10
  <2> HIDE DEF k
  <2>12. /\ q \in Statements /\ q.m_resultsets = k /\ q.m_cursorstate = st.m_cursorstate
         /\ q.alive = st.alive /\ q.m_localTrx = st.m_localTrx /\ q.owing = st.owing
         /\ q.m_currentTrx = id
    BY <2>3, <2>9 DEF Statements
  <2>13. DOMAIN v = {"map", "trx", "st"} /\ v.map = w.map /\ v.trx = w.trx /\ v.st = q
    BY <2>4, <2>11
  <2>14. PICK x : /\ o.w = x /\ DOMAIN x = {"map", "trx", "st"} /\ x.map = w.map /\ x.trx = w.trx
                  /\ x.st \in Statements /\ x.st.m_resultsets = k
                  /\ "BAD" \notin x.st.m_cursorstate
                  /\ IsPrepared(rs) => IsStmtPrepared(x.st)
                  /\ x.st.alive = st.alive /\ x.st.m_localTrx = st.m_localTrx
                  /\ x.st.owing = st.owing /\ x.st.m_currentTrx = id
    <3> HIDE DEF v, q
    <3>1. CASE p.ret = Ok
      <4>1. o.w = SetStmtState(v, "PREPARED")
        BY <2>6, <3>1 DEF v, rs
      <4> DEFINE z == SetStmtState(v, "PREPARED")
      <4>2. v.st \in Statements
        BY <2>12, <2>13
      <4>3. /\ DOMAIN z = {"map", "trx", "st"} /\ z.map = v.map /\ z.trx = v.trx
            /\ z.st \in Statements /\ "BAD" \notin z.st.m_cursorstate
            /\ z.st.m_resultsets = v.st.m_resultsets /\ z.st.alive = v.st.alive
            /\ z.st.m_localTrx = v.st.m_localTrx /\ z.st.m_currentTrx = v.st.m_currentTrx
            /\ z.st.owing = v.st.owing
            /\ IsStmtPrepared(z.st)
        BY <2>13, <4>2, StmtStateSet
      <4> HIDE DEF z
      <4>4. o.w = z
        BY <4>1 DEF z
      <4> QED BY <2>12, <2>13, <4>3, <4>4
    <3>2. CASE p.ret # Ok
      <4>1. o.w = v
        BY <2>6, <3>2 DEF v, rs
      <4> QED BY <1>1, <2>8, <2>12, <2>13, <3>2, <4>1
    <3> QED BY <3>1, <3>2
  <2>15. o.ret \in {Ok, Throw}
    BY <2>6, <2>8
  <2> HIDE DEF q, v, l, st
  <2>16. /\ StmtBase(x.st, w.trx, h) /\ StreamsOf(x.st) \subseteq StreamsOf(st)
         /\ x.st.m_resultsets # <<>> /\ TextsOf(x.st) \subseteq TextsOf(st) \union {Kind[sql]}
    <3>1. StmtBase(st, w.trx, h) /\ ~IsStmtPrepared(st)
      BY <1>6 DEF st, h
    <3>2. x.st.m_resultsets = Append(st.m_resultsets, rs)
      BY <2>14 DEF k, l
    <3> DEFINE xs == x.st
    <3>3. xs \in Statements /\ "BAD" \notin xs.m_cursorstate /\ xs.m_resultsets = Append(st.m_resultsets, rs)
      BY <2>14, <3>2
    <3>4. IsPrepared(rs) => IsStmtPrepared(xs)
      BY <2>14
    <3> HIDE DEF xs
    <3>5. /\ StmtBase(xs, w.trx, h) /\ StreamsOf(xs) \subseteq StreamsOf(st)
          /\ xs.m_resultsets # <<>> /\ TextsOf(xs) \subseteq TextsOf(st) \union {Kind[rs.m_sql]}
      BY <2>8, <3>1, <3>3, <3>4, AppendedBase
    <3> QED BY <2>8, <3>5 DEF xs
  <2> QED BY <1>6, <2>14, <2>15, <2>16 DEF PreparedIn, st, h
<1> QED BY <1>4, <1>5, <1>6

-----------------------------------------------------------------------------
(* A method of a statement and the world                                   *)

\* A statement that may have named the places ids.
Ready(w, ids, h) ==
  /\ IsWorld(w) /\ StmtFine(w.st, w.map, w.trx, h)
  /\ ids \subseteq DOMAIN w.map
  /\ w.st.m_currentTrx \in {Invalid, Own, w.st.m_localTrx} \union ids

\* Where a method may start a transaction.
Spare(w) == {Own, w.st.m_currentTrx} \union (Nat \ DOMAIN w.map)

\* The statement of the world w has come to v: what is new is its own, and what
\* it forgets is over.  X are the transactions of its new streams.
Moved(v, w, ids, C, R, X, h) ==
  /\ Goes(w, v, Spare(w), C, R)
  /\ StmtFine(v.st, v.map, v.trx, h)
  /\ v.st.m_localTrx \in {Invalid, w.st.m_localTrx} \union (Nat \ DOMAIN w.map)
  /\ v.st.m_currentTrx \in {Invalid, Own, v.st.m_localTrx} \union ids
  /\ v.st.m_localTrx # w.st.m_localTrx /\ HasLocalTrx(w.st) => v.map[w.st.m_localTrx] = NoTrx
  /\ \A id \in DOMAIN v.map \ DOMAIN w.map : v.map[id] # NoTrx => id = v.st.m_localTrx
  /\ StreamsOf(v.st) \subseteq StreamsOf(w.st) \union X

LEMMA MovedReady ==
  ASSUME NEW w, NEW v, NEW ids, NEW h, Ready(w, ids, h), NEW C, NEW R, NEW X,
         Moved(v, w, ids, C, R, X, h)
  PROVE  Ready(v, ids, h)
BY DEF Moved, Ready, Goes, Evolves

\* No transaction starts or ends.
LEMMA SameMoves ==
  ASSUME NEW w, NEW ids, NEW h, Ready(w, ids, h), NEW v, DOMAIN v = {"map", "trx", "st"},
         v.map = w.map, v.trx = w.trx, StmtFine(v.st, w.map, w.trx, h),
         v.st.m_localTrx = w.st.m_localTrx, NEW X, StreamsOf(v.st) \subseteq StreamsOf(w.st) \union X,
         v.st.m_currentTrx \in {Invalid, Own, v.st.m_localTrx} \union ids, NEW C, NEW R
  PROVE  Moved(v, w, ids, C, R, X, h)
<1>1. Goes(w, v, Spare(w), C, R)
  BY GoesStmt DEF Ready
<1> QED BY <1>1 DEF Moved

LEMMA NothingMoves ==
  ASSUME NEW w, NEW ids, NEW h, Ready(w, ids, h), NEW X, NEW C, NEW R
  PROVE  Moved(w, w, ids, C, R, X, h)
BY SameMoves DEF Ready, IsWorld

\* Every transaction that ends had a handle.
LEMMA EvolvesLive ==
  ASSUME NEW m, NEW t, Mapped(m, t), NEW n, NEW u, NEW T, NEW C, NEW R, Evolves(m, t, n, u, T, C, R),
         NEW D, NEW Q,
         \A id \in C \intersect DOMAIN m : m[id] # NoTrx => id \in D,
         \A id \in R \intersect DOMAIN m : m[id] # NoTrx => id \in Q
  PROVE  Evolves(m, t, n, u, T, D, Q)
<1>1. \A x \in DOMAIN t : x # NoTrx
  BY MapFacts DEF NoTrx
<1>2. ASSUME NEW x \in DOMAIN t, \E id \in C \intersect DOMAIN m : m[id] = x
      PROVE  \E id \in D \intersect DOMAIN m : m[id] = x
  BY <1>1, <1>2
<1>3. ASSUME NEW x \in DOMAIN t, \E id \in R \intersect DOMAIN m : m[id] = x
      PROVE  \E id \in Q \intersect DOMAIN m : m[id] = x
  BY <1>1, <1>3
<1>4. ASSUME NEW x \in DOMAIN t
      PROVE  \/ u[x] = t[x]
             \/ t[x] = "active" /\ u[x] = "committed" /\ \E id \in D \intersect DOMAIN m : m[id] = x
             \/ t[x] = "active" /\ u[x] = "rolled back" /\ \E id \in Q \intersect DOMAIN m : m[id] = x
  <2>1. \/ u[x] = t[x]
        \/ t[x] = "active" /\ u[x] = "committed" /\ \E id \in C \intersect DOMAIN m : m[id] = x
        \/ t[x] = "active" /\ u[x] = "rolled back" /\ \E id \in R \intersect DOMAIN m : m[id] = x
    BY DEF Evolves
  <2> QED BY <1>2, <1>3, <2>1
<1> QED BY <1>4 DEF Evolves

LEMMA MovedTwice ==
  ASSUME NEW w, NEW ids, NEW h, Ready(w, ids, h), NEW C, NEW R, NEW X,
         NEW v, Moved(v, w, ids, C, R, X, h), NEW u, Moved(u, v, ids, C, R, X, h),
         v.st.m_currentTrx \in Spare(w),
         v.st.m_localTrx = w.st.m_localTrx \/ v.st.m_currentTrx \in {Invalid, Own, v.st.m_localTrx}
  PROVE  Moved(u, w, ids, C, R, X, h)
<1>1. /\ Ready(v, ids, h) /\ IsWorld(w) /\ IsWorld(v)
      /\ DOMAIN w.map \subseteq DOMAIN v.map /\ DOMAIN v.map \subseteq DOMAIN u.map
      /\ DOMAIN w.map \subseteq Nat \ {Invalid} /\ DOMAIN v.map \subseteq Nat \ {Invalid}
      /\ Own \in DOMAIN w.map
  <2>1. Ready(v, ids, h)
    BY MovedReady
  <2>2. /\ IsWorld(w) /\ IsWorld(v)
        /\ DOMAIN w.map \subseteq DOMAIN v.map /\ DOMAIN v.map \subseteq DOMAIN u.map
    BY <2>1 DEF Ready, Moved, Goes, Evolves
  <2>3. DOMAIN w.map = 1 .. Len(w.map) /\ DOMAIN v.map = 1 .. Len(v.map)
    BY <2>2, MapFacts DEF IsWorld
  <2> QED BY <2>1, <2>2, <2>3 DEF IsWorld, Mapped, Invalid
<1>2. Spare(v) \subseteq Spare(w)
  BY <1>1 DEF Spare
<1>3. Goes(w, u, Spare(w), C, R)
  <2>1. Goes(w, v, Spare(w), C, R)
    BY DEF Moved
  <2>2. Goes(v, u, Spare(v), C, R)
    BY DEF Moved
  <2>3. C \intersect DOMAIN v.map \subseteq C /\ R \intersect DOMAIN v.map \subseteq R
    OBVIOUS
  <2>4. Goes(v, u, Spare(w), C, R)
    BY <1>2, <2>2, <2>3, GoesWithin
  <2> QED BY <1>1, <2>1, <2>4, GoesTwice
\* A place of v that a step to u fills.
<1>4. ASSUME NEW id \in DOMAIN v.map, u.map[id] # NoTrx
      PROVE  u.map[id] = v.map[id] \/ id = Own \/ id = v.st.m_currentTrx
  <2>1. id \in DOMAIN u.map
    BY <1>1
  <2>2. u.map[id] = v.map[id] \/ id \in Spare(v)
    BY <1>4, <2>1 DEF Moved, Goes, Evolves
  <2> QED BY <2>2 DEF Spare
<1>5. u.st.m_localTrx \in {Invalid, w.st.m_localTrx} \union (Nat \ DOMAIN w.map)
  BY <1>1 DEF Moved
<1>6. ASSUME u.st.m_localTrx # w.st.m_localTrx, HasLocalTrx(w.st)
      PROVE  u.map[w.st.m_localTrx] = NoTrx
  <2> DEFINE l == w.st.m_localTrx
  <2>1. l \in DOMAIN w.map /\ l # Own /\ l # Invalid
    BY <1>6 DEF Ready, StmtFine, LocalFine, HasLocalTrx
  <2>2. CASE v.st.m_localTrx = l
    BY <1>6, <2>2 DEF Moved, HasLocalTrx
  <2>3. CASE v.st.m_localTrx # l
    <3>1. v.map[l] = NoTrx
      BY <1>6, <2>3 DEF Moved
    <3>2. v.st.m_currentTrx # l
      BY <2>1, <2>3
    <3> HIDE DEF l
    <3>3. l \in DOMAIN v.map
      BY <1>1, <2>1
    <3>4. u.map[l] = NoTrx
      BY <1>4, <2>1, <3>1, <3>2, <3>3
    <3> QED BY <3>4 DEF l
  <2> QED BY <2>2, <2>3
<1>7. ASSUME NEW id \in DOMAIN u.map \ DOMAIN w.map, u.map[id] # NoTrx
      PROVE  id = u.st.m_localTrx
  <2>1. CASE id \notin DOMAIN v.map
    BY <1>7, <2>1 DEF Moved
  <2>2. CASE id \in DOMAIN v.map
    <3>1. id = v.st.m_localTrx
      <4>1. CASE u.map[id] = v.map[id]
        BY <1>7, <2>2, <4>1 DEF Moved
      <4>2. CASE u.map[id] # v.map[id]
        <5>1. id = v.st.m_currentTrx /\ id # Own /\ id # Invalid /\ id \notin ids
          BY <1>1, <1>4, <1>7, <2>2, <4>2 DEF Ready
        <5> QED BY <5>1 DEF Moved
      <4> QED BY <4>1, <4>2
    <3>2. HasLocalTrx(v.st)
      BY <1>1, <2>2, <3>1 DEF HasLocalTrx
    <3> QED BY <1>7, <3>1, <3>2 DEF Moved
  <2> QED BY <2>1, <2>2
<1>8. /\ StmtFine(u.st, u.map, u.trx, h)
      /\ u.st.m_currentTrx \in {Invalid, Own, u.st.m_localTrx} \union ids
      /\ StreamsOf(u.st) \subseteq StreamsOf(w.st) \union X
  BY DEF Moved
<1> QED BY <1>3, <1>5, <1>6, <1>7, <1>8 DEF Moved

LEMMA MovedWithin ==
  ASSUME NEW w, NEW ids, NEW h, Ready(w, ids, h), NEW C, NEW R, NEW X,
         NEW v, Moved(v, w, ids, C, R, X, h), NEW D, NEW Q,
         \A id \in C \intersect DOMAIN w.map : w.map[id] # NoTrx => id \in D,
         \A id \in R \intersect DOMAIN w.map : w.map[id] # NoTrx => id \in Q
  PROVE  Moved(v, w, ids, D, Q, X, h)
<1>1. Goes(w, v, Spare(w), D, Q)
  <2> DEFINE m == w.map
             t == w.trx
             n == v.map
             u == v.trx
             T == Spare(w)
  <2>1. Mapped(m, t) /\ Evolves(m, t, n, u, T, C, R) /\ IsWorld(v)
    BY DEF Ready, IsWorld, Moved, Goes
  <2> HIDE DEF m, t, n, u, T
  <2>2. /\ \A id \in C \intersect DOMAIN m : m[id] # NoTrx => id \in D
        /\ \A id \in R \intersect DOMAIN m : m[id] # NoTrx => id \in Q
    BY DEF m
  <2>3. Evolves(m, t, n, u, T, D, Q)
    BY <2>1, <2>2, EvolvesLive
  <2> QED BY <2>1, <2>3 DEF Goes, m, t, n, u, T
<1> QED BY <1>1 DEF Moved

-----------------------------------------------------------------------------
(* prepare()                                                               *)

LEMMA BaseFine ==
  ASSUME NEW st, NEW m, NEW t, NEW h, StmtFine(st, m, t, h)
  PROVE  StmtBase(st, t, h)
BY DEF StmtFine, StmtBase

LEMMA PrepareInMoves ==
  ASSUME NEW w, NEW ids, Ready(w, ids, dbc.m_dbh), Connected(dbc), ~w.st.owing,
         NEW sql \in Queries, NEW id, id \in {Invalid, Own} \union ids, NEW o \in StmtPrepareIn(w, sql, id)
  PROVE  /\ o.ret \in {Ok, Throw} /\ Moved(o.w, w, ids, {}, {}, {}, dbc.m_dbh)
         /\ TextsOf(o.w.st) \subseteq TextsOf(w.st) \union {Kind[sql]} /\ o.w.st.alive = w.st.alive
<1> DEFINE h == dbc.m_dbh
<1>1. IsWorld(w) /\ StmtFine(w.st, w.map, w.trx, h) /\ StmtBase(w.st, w.trx, h) /\ id \in Nat
  <2>1. ids \subseteq Nat
    BY MapFacts DEF Ready, IsWorld
  <2> QED BY <2>1, BaseFine DEF Ready, Invalid, Own
<1>2. PreparedIn(o, w, sql, id, h)
  BY <1>1, PrepareInPrepares
<1> HIDE DEF h
<1>3. LocalFine(o.w.st, w.map)
  <2> SUFFICES ASSUME HasLocalTrx(o.w.st)
               PROVE  /\ o.w.st.m_localTrx \in DOMAIN w.map \ {Own}
                      /\ w.map[o.w.st.m_localTrx] # NoTrx =>
                           /\ o.w.st.alive
                           /\ \/ o.w.st.m_resultsets # <<>> /\ o.w.st.m_currentTrx = o.w.st.m_localTrx
                              \/ o.w.st.m_resultsets = <<>> /\ o.w.st.owing
    BY DEF LocalFine
  <2>1. HasLocalTrx(w.st) /\ o.w.st.m_localTrx = w.st.m_localTrx /\ LocalFine(w.st, w.map)
    BY <1>1, <1>2 DEF PreparedIn, StmtFine, HasLocalTrx
  <2>2. ASSUME w.map[w.st.m_localTrx] # NoTrx
        PROVE  w.st.alive /\ w.st.m_resultsets # <<>> /\ w.st.m_currentTrx = w.st.m_localTrx
    BY <2>1, <2>2 DEF LocalFine
  <2>3. w.st.m_currentTrx = w.st.m_localTrx => w.st.m_currentTrx # Invalid
    BY <2>1 DEF HasLocalTrx
  <2>4. w.st.m_localTrx \in DOMAIN w.map \ {Own}
    BY <2>1 DEF LocalFine
  <2>5. CASE o.w.st = w.st
    BY <2>1, <2>2, <2>4, <2>5
  <2>6. CASE o.w.st # w.st
    BY <1>2, <2>1, <2>2, <2>3, <2>4, <2>6 DEF PreparedIn
  <2> QED BY <2>5, <2>6
<1>4. StmtFine(o.w.st, w.map, w.trx, h)
  <2>1. o.w.st.m_resultsets = <<>> => o.w.st.m_currentTrx = Invalid
    BY <1>1, <1>2 DEF PreparedIn, StmtFine
  <2> QED BY <1>2, <1>3, <2>1 DEF PreparedIn, StmtBase, StmtFine
<1>5. o.w.st.m_currentTrx \in {Invalid, Own, o.w.st.m_localTrx} \union ids
  BY <1>2 DEF PreparedIn, Ready
<1> DEFINE v == o.w
<1>6. /\ DOMAIN v = {"map", "trx", "st"} /\ v.map = w.map /\ v.trx = w.trx
      /\ v.st.m_localTrx = w.st.m_localTrx
      /\ StreamsOf(v.st) \subseteq StreamsOf(w.st) \union {}
  BY <1>2 DEF PreparedIn
<1>7. StmtFine(v.st, w.map, w.trx, h) /\ v.st.m_currentTrx \in {Invalid, Own, v.st.m_localTrx} \union ids
  BY <1>4, <1>5
<1>8. Ready(w, ids, h)
  BY DEF h
<1> HIDE DEF v
<1>9. Moved(v, w, ids, {}, {}, {}, h)
  BY <1>6, <1>7, <1>8, SameMoves
<1> QED BY <1>2, <1>9 DEF PreparedIn, h, v

LEMMA PrepareMoves ==
  ASSUME NEW w, NEW ids, Ready(w, ids, dbc.m_dbh), Connected(dbc), ~w.st.owing, w.st.alive,
         dbc.m_dbh # NoHandle, NEW sql \in Queries, NEW o \in StmtPrepare(w, sql)
  PROVE  /\ o.ret \in {Ok, Throw} /\ Moved(o.w, w, ids, {}, {}, {}, dbc.m_dbh)
         /\ TextsOf(o.w.st) \subseteq TextsOf(w.st) \union {Kind[sql]} /\ o.w.st.alive = w.st.alive
<1> DEFINE h == dbc.m_dbh
<1>1. IsWorld(w) /\ StmtFine(w.st, w.map, w.trx, h) /\ StmtBase(w.st, w.trx, h) /\ w.st \in Statements
  BY BaseFine DEF Ready, StmtFine
<1>2. CASE IsStmtPrepared(w.st) \/ w.st.m_currentTrx # Invalid
  <2>1. o \in Gives(w, Throw)
    BY <1>2 DEF StmtPrepare
  <2>2. o.w = w /\ o.ret = Throw
    BY <2>1, GivesFacts
  <2> QED BY <2>2, NothingMoves
<1>3. CASE ~IsStmtPrepared(w.st) /\ w.st.m_currentTrx = Invalid /\ HasActiveTrx(w)
  <2>1. o \in StmtPrepareIn(w, sql, Own)
    BY <1>3 DEF StmtPrepare
  <2> QED BY <2>1, PrepareInMoves
<1>4. CASE ~IsStmtPrepared(w.st) /\ w.st.m_currentTrx = Invalid /\ ~HasActiveTrx(w)
  <2>1. PICK m \in MakeTrx(w) :
          IF m.ret = Ok THEN o \in StmtPrepareIn([m.w EXCEPT !.st.m_localTrx = Len(m.w.map)], sql, Len(m.w.map))
          ELSE o = m
    BY <1>4 DEF StmtPrepare, Then
  <2> DEFINE L == Len(w.map) + 1
  <2>2. Begun(m, w, L)
    BY <1>1, MakeTrxBegins DEF MakeTrx
  <2>3. CASE m.ret # Ok
    <3>1. o.ret = Throw /\ o.w = w
      BY <2>1, <2>2, <2>3 DEF Begun
    <3> QED BY <3>1, NothingMoves
  <2>4. CASE m.ret = Ok
    <3> DEFINE q == [w.st EXCEPT !.m_localTrx = L]
               v == [m.w EXCEPT !.st.m_localTrx = L]
               n == m.w.map
               u == m.w.trx
    <3>1. /\ DOMAIN w.map = 1 .. Len(w.map) /\ Len(w.map) \in Nat \ {0}
          /\ L \in Nat /\ L \notin DOMAIN w.map /\ L # Own /\ L # Invalid
      BY <1>1, MapFacts DEF IsWorld, Own, Invalid
    <3>2. /\ Goes(w, m.w, {L}, {}, {}) /\ m.w.st = w.st
          /\ DOMAIN n = DOMAIN w.map \union {L} /\ n[L] # NoTrx
      BY <2>2, <2>4 DEF Begun
    <3>3. Len(n) = L /\ Mapped(n, u) /\ DOMAIN m.w = {"map", "trx", "st"}
      <4>1. Mapped(n, u) /\ DOMAIN m.w = {"map", "trx", "st"}
        BY <3>2 DEF Goes, IsWorld
      <4>2. DOMAIN n = 1 .. Len(n) /\ Len(n) \in Nat
        BY <4>1, MapFacts
      <4> DEFINE i == Len(w.map)
                 k == Len(n)
      <4>3. i \in Nat /\ k \in Nat /\ 1 .. k = (1 .. i) \union {i + 1}
        BY <3>1, <3>2, <4>2
      <4> HIDE DEF i, k
      <4>4. k >= i + 1
        <5>1. i + 1 \in 1 .. k
          BY <4>3
        <5> QED BY <4>3, <5>1
      <4>5. k \in 1 .. i \/ k = i + 1
        <5>1. k \in 1 .. k
          BY <4>3, <4>4
        <5> QED BY <4>3, <5>1
      <4>6. k = i + 1
        BY <4>3, <4>4, <4>5
      <4> QED BY <4>1, <4>6 DEF i, k
    <3> HIDE DEF L
    <3>4. o \in StmtPrepareIn(v, sql, L)
      BY <2>1, <2>4, <3>3
    <3>5. v = [m.w EXCEPT !.st = q]
      BY <3>2
    <3>6. DOMAIN v = {"map", "trx", "st"} /\ v.map = n /\ v.trx = u /\ v.st = q
      BY <3>3, <3>5
    <3> HIDE DEF v, n, u
    <3>7. /\ q \in Statements /\ q.alive = w.st.alive /\ q.m_cursorstate = w.st.m_cursorstate
          /\ q.m_resultsets = w.st.m_resultsets /\ q.m_localTrx = L
          /\ q.m_currentTrx = w.st.m_currentTrx /\ q.owing = w.st.owing
      BY <1>1, <3>1 DEF Statements
    <3> HIDE DEF q
    <3>8. StreamsOf(q) = StreamsOf(w.st) /\ TextsOf(q) = TextsOf(w.st) /\ (IsStmtPrepared(q) <=> IsStmtPrepared(w.st))
      BY <3>7 DEF StreamsOf, TextsOf, IsStmtPrepared
    <3>9. StmtBase(q, u, h)
      <4>1. Evolves(w.map, w.trx, n, u, {L}, {}, {}) /\ Mapped(w.map, w.trx)
        BY <1>1, <3>2 DEF Goes, IsWorld, n, u
      <4>2. w.st.m_localTrx # L
        BY <1>1, <3>1 DEF StmtFine, LocalFine, HasLocalTrx
      <4>3. StreamFree({} \union {}, w.map, w.st)
        BY DEF StreamFree
      <4>4. StmtFine(w.st, n, u, h)
        BY <1>1, <4>1, <4>2, <4>3, StmtStays
      <4> QED BY <3>7, <3>8, <4>4 DEF StmtFine, StmtBase, ResultsFine
    <3>10. IsWorld(v)
      BY <3>3, <3>6 DEF IsWorld, n, u
    <3>11. PreparedIn(o, v, sql, L, h)
      <4>1. StmtBase(v.st, v.trx, dbc.m_dbh)
        BY <3>6, <3>9
      <4> QED BY <3>1, <3>4, <3>10, <4>1, PrepareInPrepares
    <3> DEFINE x == o.w
    <3>12. /\ o.ret \in {Ok, Throw} /\ DOMAIN x = {"map", "trx", "st"} /\ x.map = n /\ x.trx = u
           /\ StmtBase(x.st, u, h) /\ StreamsOf(x.st) \subseteq StreamsOf(w.st)
           /\ TextsOf(x.st) \subseteq TextsOf(w.st) \union {Kind[sql]}
           /\ x.st.alive = w.st.alive /\ x.st.m_localTrx = L
           /\ x.st.m_currentTrx = L /\ x.st.m_resultsets # <<>>
      BY <1>4, <3>6, <3>7, <3>8, <3>11 DEF PreparedIn
    <3> HIDE DEF x, h
    <3>13. StmtFine(x.st, x.map, x.trx, h)
      <4>1. LocalFine(x.st, n)
        BY <3>1, <3>2, <3>12 DEF LocalFine, n
      <4> QED BY <3>12, <4>1 DEF StmtFine, StmtBase
    <3>14. Goes(w, x, Spare(w), {}, {})
      <4>1. Evolves(w.map, w.trx, n, u, {L}, {}, {})
        BY <3>2 DEF Goes, n, u
      <4>2. {L} \subseteq Spare(w)
        BY <3>1 DEF Spare
      <4>3. Evolves(w.map, w.trx, n, u, Spare(w), {}, {})
        BY <4>1, <4>2, EvolvesWithin
      <4> QED BY <3>3, <3>12, <4>3 DEF Goes, IsWorld, n, u
    <3>15. HasLocalTrx(w.st) => n[w.st.m_localTrx] = NoTrx
      <4> SUFFICES ASSUME HasLocalTrx(w.st) PROVE n[w.st.m_localTrx] = NoTrx
        OBVIOUS
      <4> DEFINE l == w.st.m_localTrx
      <4>1. l \in DOMAIN w.map /\ w.map[l] = NoTrx
        BY <1>1, <1>4 DEF StmtFine, LocalFine, HasLocalTrx
      <4>2. l \in DOMAIN n /\ l # L
        BY <3>1, <3>2, <4>1 DEF n
      <4>3. Evolves(w.map, w.trx, n, u, {L}, {}, {})
        BY <3>2 DEF Goes, n, u
      <4> HIDE DEF l
      <4>4. n[l] = NoTrx
        BY <4>1, <4>2, <4>3 DEF Evolves
      <4> QED BY <4>4 DEF l
    <3>16. \A i \in DOMAIN n \ DOMAIN w.map : i = L
      BY <3>2 DEF n
    <3>17. Moved(x, w, ids, {}, {}, {}, h)
      BY <3>1, <3>12, <3>13, <3>14, <3>15, <3>16 DEF Moved
    <3> QED BY <3>12, <3>17 DEF x, h
  <2> QED BY <2>3, <2>4
<1> QED BY <1>2, <1>3, <1>4

-----------------------------------------------------------------------------
(* execute()                                                               *)

\* The places an execution of the kind may commit or roll back.
CommitsBy(kind, id) == {i \in {id} : kind = "commit"}
RollsBy(kind, id)   == {i \in {id} : kind = "rollback"}

\* isc_dsql_execute2.
LEMMA ExecutionEvolves ==
  ASSUME NEW m, NEW t, Mapped(m, t), NEW id, id \in DOMAIN m, NEW cursor, cursor \in Nat,
         NEW sql \in Queries, NEW e \in Executions(t, m[id], cursor, sql), e.code = "OK"
  PROVE  /\ Evolves(m, t, [m EXCEPT ![id] = e.handle], e.trx,
                    {id}, CommitsBy(Kind[sql], id), RollsBy(Kind[sql], id))
         /\ e.cursor \in Nat
<1> DEFINE C == CommitsBy(Kind[sql], id)
           R == RollsBy(Kind[sql], id)
           x == m[id]
<1>1. /\ m \in Seq(Nat) /\ x \in Nat
      /\ Kind[sql] \in {"select", "change", "start", "commit", "rollback"}
  BY LibraryAssumption DEF Mapped, Kinds
<1>2. [m EXCEPT ![id] = x] = m
  BY <1>1
<1>3. Evolves(m, t, m, t, {id}, C, R)
  BY EvolvesSame
<1>4. e \notin {Execution(t, x, cursor, "ERROR")}
  BY DEF Execution
<1>5. CASE Kind[sql] = "start"
  <2>1. PICK s \in Starts(t) : e = Execution(s.trx, s.handle, cursor, "OK") /\ x = NoTrx
    BY <1>4, <1>5 DEF Executions
  <2>2. e.trx = s.trx /\ e.handle = s.handle /\ e.cursor = cursor
    BY <2>1 DEF Execution
  <2>3. Evolves(m, t, Put(m, id, s.handle), s.trx, {id}, {}, {})
    BY <2>1, StartEvolves
  <2>4. Put(m, id, s.handle) = [m EXCEPT ![id] = s.handle]
    <3>1. DOMAIN m \union {id} = DOMAIN m
      OBVIOUS
    <3>2. Put(m, id, s.handle) = [i \in DOMAIN m |-> IF i = id THEN s.handle ELSE m[i]]
      BY <3>1 DEF Put
    <3> DEFINE q == [m EXCEPT ![id] = s.handle]
    <3>3. q = [i \in DOMAIN m |-> IF i = id THEN s.handle ELSE m[i]]
      BY <1>1
    <3> QED BY <3>2, <3>3
  <2> DEFINE n == Put(m, id, s.handle)
             u == s.trx
  <2> HIDE DEF n, u, C, R
  <2>5. Evolves(m, t, n, u, {id}, {}, {})
    BY <2>3 DEF n, u
  <2>6. Evolves(m, t, n, u, {id}, C, R)
    BY <2>5, EvolvesWithin
  <2> QED BY <2>2, <2>4, <2>6 DEF n, u, C, R
<1>6. CASE Kind[sql] \in {"select", "change"}
  <2>1. e = Execution(t, x, x, "OK") \/ e = Execution(t, x, cursor, "OK")
    BY <1>4, <1>6 DEF Executions
  <2>2. e.trx = t /\ e.handle = x /\ e.cursor \in {x, cursor}
    BY <2>1 DEF Execution
  <2> QED BY <1>1, <1>2, <1>3, <2>2
<1>7. CASE Kind[sql] \in {"commit", "rollback"}
  <2> DEFINE how == IF Kind[sql] = "commit" THEN "committed" ELSE "rolled back"
  <2>1. e = Execution(Ended(t, x, how), NoTrx, cursor, "OK") /\ x # NoTrx
    BY <1>4, <1>7 DEF Executions
  <2>2. EndedIn(how, id, C, R)
    BY <1>7 DEF EndedIn, CommitsBy, RollsBy
  <2> HIDE DEF how
  <2>3. e.trx = Ended(t, x, how) /\ e.handle = NoTrx /\ e.cursor = cursor
    BY <2>1 DEF Execution
  <2> HIDE DEF C, R
  <2>4. Evolves(m, t, [m EXCEPT ![id] = NoTrx], Ended(t, x, how), {}, C, R)
    BY <2>1, <2>2, EndEvolves
  <2> DEFINE n == [m EXCEPT ![id] = NoTrx]
             u == Ended(t, x, how)
  <2> HIDE DEF n, u
  <2>5. Evolves(m, t, n, u, {}, C, R)
    BY <2>4 DEF n, u
  <2>6. Evolves(m, t, n, u, {id}, C, R)
    BY <2>5, EvolvesWithin
  <2> QED BY <2>3, <2>6 DEF n, u, C, R
<1> QED BY <1>1, <1>5, <1>6, <1>7

\* One resultset of a statement has changed; x is the transaction of its new
\* stream, if it has one.
Replaced(st, i, rs) == [st EXCEPT !.m_resultsets[i] = rs]

Replaces(q, st, i, rs, x, t, h) ==
  /\ i \in DOMAIN st.m_resultsets /\ q = Replaced(st, i, rs)
  /\ ResultFine(rs, h)
  /\ IsPrepared(rs) <=> IsPrepared(st.m_resultsets[i])
  /\ rs.blob \in {st.m_resultsets[i].blob, NoBlob} \/ (rs.blob.trx = x /\ Active(t, x))

LEMMA ReplacedFine ==
  ASSUME NEW st, NEW m, NEW t, NEW h, StmtFine(st, m, t, h), NEW i, NEW rs, NEW x, NEW q,
         Replaces(q, st, i, rs, x, t, h)
  PROVE  /\ StmtFine(q, m, t, h)
         /\ q.alive = st.alive /\ q.m_localTrx = st.m_localTrx
         /\ q.m_currentTrx = st.m_currentTrx /\ q.owing = st.owing
         /\ q.m_cursorstate = st.m_cursorstate /\ q.m_resultsets # <<>>
         /\ StreamsOf(q) \subseteq StreamsOf(st) \union {x}
         /\ rs.blob \in {st.m_resultsets[i].blob, NoBlob} => StreamsOf(q) \subseteq StreamsOf(st)
<1> DEFINE l == st.m_resultsets
           k == [l EXCEPT ![i] = rs]
<1>0. /\ i \in DOMAIN l /\ q = Replaced(st, i, rs) /\ ResultFine(rs, h)
      /\ IsPrepared(rs) <=> IsPrepared(l[i])
      /\ rs.blob \in {l[i].blob, NoBlob} \/ (rs.blob.trx = x /\ Active(t, x))
  BY DEF Replaces
<1>1. /\ st \in Statements /\ l \in Seq(Results) /\ rs \in Results /\ DOMAIN l = 1 .. Len(l)
      /\ Len(l) \in Nat
  BY <1>0, StmtFacts DEF StmtFine, ResultFine
<1>2. /\ k \in Seq(Results) /\ Len(k) = Len(l) /\ DOMAIN k = DOMAIN l
      /\ k[i] = rs /\ \A j \in DOMAIN l \ {i} : k[j] = l[j]
  <2> HIDE DEF l
  <2> QED BY <1>0, <1>1, ExceptFacts DEF l
<1>3. q = [st EXCEPT !.m_resultsets = k]
  BY <1>0 DEF Replaced
<1> HIDE DEF k
<1>4. /\ q \in Statements /\ q.m_resultsets = k
      /\ q.alive = st.alive /\ q.m_localTrx = st.m_localTrx
      /\ q.m_currentTrx = st.m_currentTrx /\ q.owing = st.owing
      /\ q.m_cursorstate = st.m_cursorstate
  BY <1>1, <1>2, <1>3 DEF Statements
<1>5. k # <<>>
  <2>1. i \in DOMAIN k
    BY <1>0, <1>2
  <2> QED BY <2>1, EmptySeq
<1>6. ResultsFine(q, h)
  <2> SUFFICES ASSUME NEW j \in DOMAIN k
               PROVE  ResultFine(k[j], h) /\ (IsPrepared(k[j]) => j = Len(k) /\ IsStmtPrepared(q))
    BY <1>4 DEF ResultsFine
  <2>1. IsPrepared(k[j]) <=> IsPrepared(l[j])
    BY <1>0, <1>2
  <2>2. j \in DOMAIN l /\ (IsPrepared(l[j]) => j = Len(l) /\ IsStmtPrepared(st))
    BY <1>2 DEF StmtFine, ResultsFine
  <2>3. ResultFine(k[j], h)
    BY <1>0, <1>2, <2>2 DEF StmtFine, ResultsFine
  <2> QED BY <1>2, <1>4, <2>1, <2>2, <2>3 DEF IsStmtPrepared
<1>7. ASSUME NEW y \in StreamsOf(q)
      PROVE  y \in StreamsOf(st) \/ (y = x /\ Active(t, x) /\ rs.blob \notin {l[i].blob, NoBlob})
  <2>1. PICK j \in DOMAIN k : k[j].blob # NoBlob /\ y = k[j].blob.trx
    BY <1>4 DEF StreamsOf
  <2>2. CASE j = i /\ rs.blob \notin {l[i].blob, NoBlob}
    BY <1>0, <1>2, <2>1, <2>2
  <2>3. CASE j = i /\ rs.blob \in {l[i].blob, NoBlob}
    BY <1>0, <1>2, <2>1, <2>3 DEF StreamsOf
  <2>4. CASE j # i
    BY <1>2, <2>1, <2>4 DEF StreamsOf
  <2> QED BY <2>2, <2>3, <2>4
<1>8. \A y \in StreamsOf(q) : Active(t, y)
  BY <1>7 DEF StmtFine
<1>9. LocalFine(q, m)
  <2>1. l # <<>>
    BY <1>0, EmptySeq
  <2> QED BY <1>4, <1>5, <2>1 DEF StmtFine, LocalFine, HasLocalTrx
<1>10. StmtFine(q, m, t, h)
  BY <1>4, <1>5, <1>6, <1>8, <1>9 DEF StmtFine
<1> QED BY <1>3, <1>4, <1>5, <1>7, <1>10 DEF l

LEMMA ReplacedSame ==
  ASSUME NEW st, NEW m, NEW t, NEW h, StmtFine(st, m, t, h), NEW i, i \in DOMAIN st.m_resultsets,
         NEW rs, ResultFine(rs, h), IsPrepared(rs) <=> IsPrepared(st.m_resultsets[i]),
         rs.blob \in {st.m_resultsets[i].blob, NoBlob},
         NEW q, q = Replaced(st, i, rs)
  PROVE  /\ StmtFine(q, m, t, h)
         /\ q.alive = st.alive /\ q.m_localTrx = st.m_localTrx
         /\ q.m_currentTrx = st.m_currentTrx /\ q.owing = st.owing
         /\ StreamsOf(q) \subseteq StreamsOf(st)
<1>1. Replaces(q, st, i, rs, NoTrx, t, h)
  BY DEF Replaces
<1> QED BY <1>1, ReplacedFine

\* The places an execute() of a statement may commit or roll back.
ExecCommits(st) ==
  {i \in {st.m_localTrx} : "start" \in TextsOf(st)}
    \union {i \in {st.m_currentTrx} : "commit" \in TextsOf(st)}
ExecRolls(st) == {i \in {st.m_currentTrx} : "rollback" \in TextsOf(st)}

LEMMA RunMoves ==
  ASSUME NEW w, NEW ids, NEW h, Ready(w, ids, h), w.st.alive, NEW i, i \in DOMAIN w.st.m_resultsets,
         IsPrepared(w.st.m_resultsets[i]), w.st.m_currentTrx \in DOMAIN w.map,
         StreamFree({w.st.m_currentTrx}, w.map, w.st), NEW o \in RunResult(w, i)
  PROVE  LET kind == Kind[w.st.m_resultsets[i].m_sql]
             id   == w.st.m_currentTrx
         IN  /\ o.ret \in {Ok, Throw}
             /\ Moved(o.w, w, ids, CommitsBy(kind, id), RollsBy(kind, id), {}, h)
             /\ o.w.st.alive = w.st.alive
<1> DEFINE rs   == w.st.m_resultsets[i]
           id   == w.st.m_currentTrx
           kind == Kind[rs.m_sql]
           C    == CommitsBy(kind, id)
           R    == RollsBy(kind, id)
<1>1. CASE o \in Gives(w, Throw)
  <2>1. o.w = w /\ o.ret = Throw
    BY <1>1, GivesFacts
  <2> QED BY <2>1, NothingMoves
<1>2. CASE o \notin Gives(w, Throw)
  <2>1. PICK e \in {x \in Executions(w.trx, Handle(w, id), rs.cursor, rs.m_sql) : x.code = "OK"} :
          o = [w |-> [w EXCEPT !.trx = e.trx, !.map[id] = e.handle,
                               !.st.m_resultsets[i] = Executed(rs, e.cursor)],
               ret |-> Ok]
    BY <1>2 DEF RunResult, Executed
  <2>2. /\ IsWorld(w) /\ Mapped(w.map, w.trx) /\ StmtFine(w.st, w.map, w.trx, h)
        /\ ResultFine(rs, h) /\ rs \in Results /\ rs.cursor \in Nat /\ rs.m_sql \in Queries
        /\ DOMAIN w = {"map", "trx", "st"}
    BY DEF Ready, IsWorld, StmtFine, ResultsFine, ResultFine, Results
  <2> DEFINE n == [w.map EXCEPT ![id] = e.handle]
             u == e.trx
             x == Executed(rs, e.cursor)
             q == [w.st EXCEPT !.m_resultsets[i] = x]
             v == [w EXCEPT !.trx = u, !.map = n, !.st = q]
  <2>3. o.w = v /\ o.ret = Ok
    BY <2>1
  <2>4. DOMAIN v = {"map", "trx", "st"} /\ v.map = n /\ v.trx = u /\ v.st = q
    BY <2>2
  <2>5. Evolves(w.map, w.trx, n, u, {id}, C, R) /\ e.cursor \in Nat
    <3>1. e \in Executions(w.trx, w.map[id], rs.cursor, rs.m_sql) /\ e.code = "OK"
      BY <2>1 DEF Handle
    <3> QED BY <2>2, <3>1, ExecutionEvolves
  <2> HIDE DEF n, u, v
  <2>6. ResultFine(x, h) /\ IsPrepared(x) /\ x.blob = rs.blob
    BY <2>2, <2>5, ExecutedFine
  <2> HIDE DEF x
  <2>7. StmtFine(w.st, n, u, h)
    <3>1. StreamFree(C \union R, w.map, w.st)
      BY DEF StreamFree, CommitsBy, RollsBy
    <3>2. w.st.m_localTrx \in {id} \ {Invalid} =>
            w.st.alive /\ w.st.m_resultsets # <<>> /\ w.st.m_currentTrx = w.st.m_localTrx
      BY EmptySeq
    <3> DEFINE T == {id}
    <3> HIDE DEF C, R, id, T
    <3>3. Evolves(w.map, w.trx, n, u, T, C, R)
      BY <2>5 DEF T
    <3>4. w.st.m_localTrx \in T \ {Invalid} =>
            w.st.alive /\ w.st.m_resultsets # <<>> /\ w.st.m_currentTrx = w.st.m_localTrx
      BY <3>2 DEF T
    <3> QED BY <2>2, <3>1, <3>3, <3>4, StmtStays
  <2>8. /\ StmtFine(q, n, u, h)
        /\ q.alive = w.st.alive /\ q.m_localTrx = w.st.m_localTrx
        /\ q.m_currentTrx = w.st.m_currentTrx
        /\ StreamsOf(q) \subseteq StreamsOf(w.st)
    <3> DEFINE st == w.st
    <3>1. x.blob \in {st.m_resultsets[i].blob, NoBlob} /\ i \in DOMAIN st.m_resultsets
      BY <2>6
    <3>2. IsPrepared(x) <=> IsPrepared(st.m_resultsets[i])
      BY <2>6
    <3>3. StmtFine(st, n, u, h) /\ ResultFine(x, h)
      BY <2>6, <2>7
    <3>4. q = Replaced(st, i, x)
      BY DEF Replaced
    <3> HIDE DEF st, q
    <3>5. /\ StmtFine(q, n, u, h)
          /\ q.alive = st.alive /\ q.m_localTrx = st.m_localTrx
          /\ q.m_currentTrx = st.m_currentTrx
          /\ StreamsOf(q) \subseteq StreamsOf(st)
      BY <3>1, <3>2, <3>3, <3>4, ReplacedSame
    <3> QED BY <3>5 DEF st
  <2> HIDE DEF q
  <2>9. Goes(w, v, Spare(w), C, R)
    <3>1. {id} \subseteq Spare(w)
      BY DEF Spare
    <3> DEFINE m == w.map
               t == w.trx
               T == {id}
               S == Spare(w)
    <3> HIDE DEF C, R, m, t, T, S, id
    <3>2. Evolves(m, t, n, u, T, C, R) /\ T \subseteq S
      BY <2>5, <3>1 DEF m, t, T, S
    <3>3. C \intersect DOMAIN m \subseteq C /\ R \intersect DOMAIN m \subseteq R
      OBVIOUS
    <3>4. Evolves(m, t, n, u, S, C, R)
      BY <3>2, <3>3, EvolvesWithin
    <3> QED BY <2>4, <3>4 DEF Goes, IsWorld, Evolves, m, t, S
  <2>10. DOMAIN n = DOMAIN w.map
    BY DEF n
  <2>11. Moved(v, w, ids, C, R, {}, h)
    <3>1. v.st.m_currentTrx \in {Invalid, Own, v.st.m_localTrx} \union ids
      BY <2>4, <2>8 DEF Ready
    <3> HIDE DEF C, R
    <3> QED BY <2>4, <2>8, <2>9, <2>10, <3>1 DEF Moved
  <2> QED BY <2>3, <2>4, <2>8, <2>11
<1> QED BY <1>1, <1>2

\* relinquishLocalTrx() of a statement that reads nothing in its transaction.
LEMMA RelinquishMoves ==
  ASSUME NEW w, NEW ids, NEW h, Ready(w, ids, h), HasLocalTrx(w.st),
         w.st.m_resultsets # <<>>, StreamFree({w.st.m_localTrx}, w.map, w.st), NEW o \in Relinquish(w)
  PROVE  /\ o.ret \in {Ok, Throw}
         /\ Moved(o.w, w, ids, {w.st.m_localTrx}, {}, {}, h)
         /\ o.ret = Ok =>
              /\ o.w.st.alive = w.st.alive /\ o.w.st.m_resultsets = w.st.m_resultsets
              /\ o.w.st.m_currentTrx = Own /\ o.w.st.m_localTrx = Invalid
              /\ StreamsOf(o.w.st) = StreamsOf(w.st)
              /\ o.w.map[Own] = w.map[Own]
         /\ o.ret = Throw => o.w = w
<1> DEFINE l == w.st.m_localTrx
           C == {l}
<1>1. /\ IsWorld(w) /\ StmtFine(w.st, w.map, w.trx, h) /\ w.st \in Statements
      /\ l \in DOMAIN w.map /\ l # Own
  BY DEF Ready, StmtFine, LocalFine
<1>2. PICK c \in Commit(w, l) :
        IF c.ret = Ok
          THEN o \in Gives([c.w EXCEPT !.st.m_localTrx = Invalid, !.st.m_currentTrx = Own], Ok)
          ELSE o = c
  BY DEF Relinquish, Then
<1>3. Concluded(c, w, l, C, {})
  <2>1. l \in C
    OBVIOUS
  <2> HIDE DEF C
  <2> QED BY <1>1, <2>1, CommitConcludes
<1>4. CASE c.ret # Ok
  <2>1. o.ret = Throw /\ o.w = w
    BY <1>2, <1>3, <1>4 DEF Concluded
  <2> QED BY <2>1, NothingMoves, Words
<1>5. CASE c.ret = Ok
  <2> DEFINE a == [w.st EXCEPT !.m_localTrx = Invalid]
             q == [a EXCEPT !.m_currentTrx = Own]
             v == [c.w EXCEPT !.st.m_localTrx = Invalid, !.st.m_currentTrx = Own]
             n == c.w.map
             u == c.w.trx
  <2>1. o.w = v /\ o.ret = Ok
    <3> HIDE DEF v
    <3>1. o \in Gives(v, Ok)
      BY <1>2, <1>5 DEF v
    <3> QED BY <3>1, GivesFacts
  <2>2. /\ Goes(w, c.w, {}, C, {}) /\ c.w.st = w.st /\ DOMAIN n = DOMAIN w.map
        /\ \A j \in DOMAIN w.map \ {l} : n[j] = w.map[j]
        /\ n[l] = NoTrx
    BY <1>3, <1>5 DEF Concluded
  <2>3. v = [c.w EXCEPT !.st = q]
    BY <2>2
  <2>4. DOMAIN c.w = {"map", "trx", "st"}
    BY <2>2 DEF Goes, IsWorld
  <2>5. DOMAIN v = {"map", "trx", "st"} /\ v.map = n /\ v.trx = u /\ v.st = q
    BY <2>3, <2>4
  <2> HIDE DEF v, n, u
  <2>6. /\ q \in Statements /\ q.m_localTrx = Invalid /\ q.m_currentTrx = Own
        /\ q.alive = w.st.alive /\ q.m_resultsets = w.st.m_resultsets
        /\ q.m_cursorstate = w.st.m_cursorstate /\ q.owing = w.st.owing
    BY <1>1 DEF Statements, Invalid, Own
  <2> HIDE DEF q
  <2>7. StmtFine(w.st, n, u, h)
    <3>1. Evolves(w.map, w.trx, n, u, {}, C, {}) /\ Mapped(w.map, w.trx)
      BY <1>1, <2>2 DEF Goes, IsWorld, n, u
    <3>2. StreamFree(C \union {}, w.map, w.st)
      BY DEF StreamFree
    <3> HIDE DEF C
    <3> QED BY <1>1, <3>1, <3>2, StmtStays
  <2>8. StmtFine(q, n, u, h) /\ StreamsOf(q) = StreamsOf(w.st)
    BY <2>6, <2>7 DEF StmtFine, ResultsFine, IsStmtPrepared, LocalFine, HasLocalTrx, StreamsOf
  <2>9. Goes(w, v, Spare(w), C, {})
    <3>1. Goes(w, c.w, Spare(w), C, {})
      <4>1. C \intersect DOMAIN w.map \subseteq C /\ {} \subseteq Spare(w) /\ {} \intersect DOMAIN w.map \subseteq {}
        OBVIOUS
      <4> HIDE DEF C
      <4> QED BY <2>2, <4>1, GoesWithin
    <3> QED BY <2>5, <3>1 DEF Goes, IsWorld, n, u
  <2>10. Moved(v, w, ids, C, {}, {}, h)
    <3> HIDE DEF C
    <3> QED BY <2>2, <2>5, <2>6, <2>8, <2>9 DEF Moved
  <2>11. n[Own] = w.map[Own]
    BY <1>1, <2>2 DEF IsWorld, Mapped
  <2> QED BY <2>1, <2>5, <2>6, <2>8, <2>10, <2>11, Words
<1> QED BY <1>4, <1>5

LEMMA NoTrxFree ==
  ASSUME NEW st, NEW m, NEW t, NEW h, StmtFine(st, m, t, h), Mapped(m, t)
  PROVE  NoTrx \notin StreamsOf(st)
<1>1. NoTrx \notin DOMAIN t
  BY MapFacts DEF NoTrx
<1> QED BY <1>1 DEF StmtFine, Active

LEMMA ResultExecuteMoves ==
  ASSUME NEW w, NEW ids, NEW h, Ready(w, ids, h), w.st.alive, NEW i, i \in DOMAIN w.st.m_resultsets,
         StreamFree({w.st.m_currentTrx}, w.map, w.st), NEW o \in ResultExecute(w, i)
  PROVE  /\ o.ret \in {Ok, Throw}
         /\ Moved(o.w, w, ids, ExecCommits(w.st), ExecRolls(w.st), {}, h)
         /\ o.w.st.alive = w.st.alive
<1> DEFINE rs   == w.st.m_resultsets[i]
           id   == w.st.m_currentTrx
           kind == Kind[rs.m_sql]
           C    == ExecCommits(w.st)
           R    == ExecRolls(w.st)
<1>1. kind \in TextsOf(w.st)
  BY DEF TextsOf
<1>2. CASE o \in Gives(w, Throw)
  <2>1. o.w = w /\ o.ret = Throw
    BY <1>2, GivesFacts
  <2> QED BY <2>1, NothingMoves
<1>3. CASE o \notin Gives(w, Throw)
  <2>1. IsPrepared(rs) /\ id \in DOMAIN w.map
    BY <1>3 DEF ResultExecute, Known
  <2>2. CASE ~ForOwn(w, rs)
    <3>1. o \in RunResult(w, i)
      BY <1>3, <2>2 DEF ResultExecute
    <3> DEFINE D == CommitsBy(kind, id)
               Q == RollsBy(kind, id)
    <3>2. o.ret \in {Ok, Throw} /\ Moved(o.w, w, ids, D, Q, {}, h) /\ o.w.st.alive = w.st.alive
      BY <2>1, <3>1, RunMoves
    <3>3. D \subseteq C /\ Q \subseteq R
      BY <1>1 DEF CommitsBy, RollsBy, ExecCommits, ExecRolls
    <3> HIDE DEF C, R, D, Q
    <3>4. Moved(o.w, w, ids, C, R, {}, h)
      BY <3>2, <3>3, MovedWithin
    <3> QED BY <3>2, <3>4 DEF C, R
  <2>3. CASE ForOwn(w, rs)
    <3>1. /\ kind = "start" /\ HasLocalTrx(w.st) /\ ~HasActiveTrx(w)
          /\ o \in Then(Relinquish(w), LAMBDA v : RunResult(v, i))
      BY <1>3, <2>3 DEF ResultExecute, ForOwn
    <3>2. PICK p \in Relinquish(w) : IF p.ret = Ok THEN o \in RunResult(p.w, i) ELSE o = p
      BY <3>1 DEF Then
    <3>3. w.st.m_resultsets # <<>>
      BY EmptySeq
    <3>4. StreamFree({w.st.m_localTrx}, w.map, w.st)
      <4> DEFINE l == w.st.m_localTrx
      <4>1. StmtFine(w.st, w.map, w.trx, h) /\ Mapped(w.map, w.trx)
        BY DEF Ready, IsWorld
      <4>2. w.map[l] = NoTrx \/ l = id
        BY <3>1, <3>3, <4>1 DEF StmtFine, LocalFine
      <4>3. NoTrx \notin StreamsOf(w.st)
        BY <4>1, NoTrxFree
      <4> QED BY <4>2, <4>3 DEF StreamFree
    <3> DEFINE v == p.w
               L == {w.st.m_localTrx}
    <3>5. /\ p.ret \in {Ok, Throw}
          /\ Moved(v, w, ids, L, {}, {}, h)
          /\ p.ret = Ok =>
               /\ v.st.alive = w.st.alive /\ v.st.m_resultsets = w.st.m_resultsets
               /\ v.st.m_currentTrx = Own /\ v.st.m_localTrx = Invalid
               /\ StreamsOf(v.st) = StreamsOf(w.st)
               /\ v.map[Own] = w.map[Own]
          /\ p.ret = Throw => v = w
      BY <3>1, <3>3, <3>4, RelinquishMoves
    <3>6. L \subseteq C
      BY <1>1, <3>1 DEF ExecCommits
    <3>7. Moved(v, w, ids, C, R, {}, h)
      <4> HIDE DEF C, R, v, L
      <4> QED BY <3>5, <3>6, MovedWithin
    <3>8. CASE p.ret = Throw
      <4>1. o.ret = Throw /\ o.w = w
        BY <3>2, <3>5, <3>8, Words
      <4> QED BY <4>1, NothingMoves
    <3>9. CASE p.ret = Ok
      <4>1. Ready(v, ids, h)
        BY <3>7, MovedReady
      <4>2. /\ v.st.alive /\ i \in DOMAIN v.st.m_resultsets /\ v.st.m_resultsets[i] = rs
            /\ v.st.m_currentTrx = Own /\ Own \in DOMAIN v.map /\ v.map[Own] = NoTrx
        BY <3>1, <3>5, <3>9, <4>1 DEF Ready, IsWorld, Mapped, HasActiveTrx, Handle
      <4>3. StreamFree({v.st.m_currentTrx}, v.map, v.st)
        <5>1. NoTrx \notin StreamsOf(v.st)
          BY <4>1, NoTrxFree DEF Ready, IsWorld
        <5> QED BY <4>2, <5>1 DEF StreamFree
      <4>4. o \in RunResult(v, i)
        BY <3>2, <3>9
      <4> HIDE DEF v
      <4> DEFINE D == CommitsBy(kind, Own)
                 Q == RollsBy(kind, Own)
                 u == o.w
      <4>5. o.ret \in {Ok, Throw} /\ Moved(u, v, ids, D, Q, {}, h) /\ u.st.alive = v.st.alive
        BY <2>1, <4>1, <4>2, <4>3, <4>4, RunMoves
      <4>6. D = {} /\ Q = {}
        BY <3>1 DEF CommitsBy, RollsBy
      <4> HIDE DEF D, Q, C, R, u
      <4>7. Moved(u, v, ids, C, R, {}, h)
        BY <4>1, <4>5, <4>6, MovedWithin
      <4>8. v.st.m_currentTrx \in Spare(w) /\ v.st.m_currentTrx \in {Invalid, Own, v.st.m_localTrx}
        BY <4>2 DEF Spare
      <4>9. Moved(u, w, ids, C, R, {}, h)
        BY <3>7, <4>7, <4>8, MovedTwice
      <4> QED BY <3>5, <3>9, <4>5, <4>9 DEF u, C, R, v
    <3> QED BY <3>5, <3>8, <3>9
  <2> QED BY <2>2, <2>3
<1> QED BY <1>2, <1>3

\* The resultset i of a statement is executed after others.
ExecuteNext(outcomes, i) == Then(outcomes, LAMBDA v : ResultExecute(v, i))

LEMMA ThenFacts ==
  ASSUME NEW w, NEW i
  PROVE  /\ ExecuteNext(Gives(w, Throw), i) = Gives(w, Throw)
         /\ ExecuteNext(Gives(w, Ok), i) = ResultExecute(w, i)
<1> DEFINE a == [w |-> w, ret |-> Throw]
           b == [w |-> w, ret |-> Ok]
<1>1. a.w = w /\ a.ret = Throw /\ b.w = w /\ b.ret = Ok
  OBVIOUS
<1>2. Gives(w, Throw) = {a} /\ Gives(w, Ok) = {b}
  BY DEF Gives
<1> HIDE DEF a, b
<1>3. ExecuteNext({a}, i) = {a}
  BY <1>1, Words DEF ExecuteNext, Then
<1>4. ExecuteNext({b}, i) = ResultExecute(w, i)
  BY <1>1 DEF ExecuteNext, Then
<1> QED BY <1>2, <1>3, <1>4

LEMMA NoneOrMore == \A n \in Nat : (n = 0 \/ n = 1 \/ n > 1) /\ (n > 1 => n # 0 /\ n # 1)
OBVIOUS

\* The outcomes of execute() up to the resultset i.
ExecutesUpTo(f, w, n) ==
  f = [i \in 0 .. n |->
         IF i = 0 THEN Gives(w, Ok) ELSE ExecuteNext(f[i - 1], i)]

\* The first resultset stands for them all: it is the only one, or it throws.
LEMMA ExecutesFirst ==
  ASSUME NEW w, NEW ids, NEW h, Ready(w, ids, h), NEW n, n = Len(w.st.m_resultsets),
         NEW f, f = CHOOSE g : ExecutesUpTo(g, w, n)
  PROVE  f[n] = IF n = 0 THEN Gives(w, Ok) ELSE IF n = 1 THEN ResultExecute(w, 1) ELSE Gives(w, Throw)
<1>1. n \in Nat /\ DOMAIN w.st.m_resultsets = 1 .. n
  BY StmtFacts DEF Ready, StmtFine
<1>2. n > 1 => ResultExecute(w, 1) = Gives(w, Throw)
  <2> SUFFICES ASSUME n > 1 PROVE ResultExecute(w, 1) = Gives(w, Throw)
    OBVIOUS
  <2>1. ~IsPrepared(w.st.m_resultsets[1])
    BY <1>1 DEF Ready, StmtFine, ResultsFine
  <2> QED BY <2>1 DEF ResultExecute
<1> DEFINE e == [i \in 0 .. n |-> IF i = 0 THEN Gives(w, Ok)
                                  ELSE IF i = 1 THEN ResultExecute(w, 1) ELSE Gives(w, Throw)]
<1>3. ExecutesUpTo(e, w, n)
  <2>1. \A i \in 0 .. n : e[i] = IF i = 0 THEN Gives(w, Ok)
                                 ELSE IF i = 1 THEN ResultExecute(w, 1) ELSE Gives(w, Throw)
    OBVIOUS
  <2>2. e = [i \in 0 .. n |-> e[i]]
    OBVIOUS
  <2> HIDE DEF e
  <2>3. ASSUME NEW i \in 0 .. n
        PROVE  e[i] = IF i = 0 THEN Gives(w, Ok) ELSE ExecuteNext(e[i - 1], i)
    <3>1. CASE i = 0
      BY <2>1, <3>1
    <3>2. CASE i = 1
      <4>1. e[0] = Gives(w, Ok) /\ e[1] = ResultExecute(w, 1)
        BY <1>1, <2>1, <3>2
      <4> QED BY <3>2, <4>1, ThenFacts
    <3>3. CASE i > 1
      <4>1. n > 1 /\ i - 1 \in 0 .. n /\ i - 1 # 0
        BY <1>1, <3>3
      <4>2. e[i] = Gives(w, Throw)
        BY <2>1, <3>3
      <4>3. e[i - 1] = Gives(w, Throw)
        BY <1>2, <2>1, <4>1
      <4> QED BY <3>3, <4>2, <4>3, ThenFacts
    <3> QED BY <1>1, <3>1, <3>2, <3>3
  <2> QED BY <2>2, <2>3 DEF ExecutesUpTo
<1> HIDE DEF e
<1>4. ExecutesUpTo(f, w, n)
  BY <1>3
<1>5. ASSUME NEW i \in 0 .. n
      PROVE  f[i] = IF i = 0 THEN Gives(w, Ok) ELSE ExecuteNext(f[i - 1], i)
  BY <1>4 DEF ExecutesUpTo
<1>6. CASE n = 0
  BY <1>1, <1>5, <1>6
<1>7. CASE n = 1
  <2>1. f[0] = Gives(w, Ok)
    BY <1>1, <1>5
  <2>2. f[1] = ExecuteNext(f[0], 1)
    BY <1>5, <1>7
  <2> QED BY <1>7, <2>1, <2>2, ThenFacts
<1>8. CASE n > 1
  <2> DEFINE T == {i \in 1 .. n : f[i] # Gives(w, Throw)}
  <2>1. f[1] = Gives(w, Throw)
    <3>1. f[0] = Gives(w, Ok)
      BY <1>1, <1>5
    <3>2. f[1] = ExecuteNext(f[0], 1)
      BY <1>1, <1>5, <1>8
    <3> QED BY <1>2, <1>8, <3>1, <3>2, ThenFacts
  <2>2. T = {}
    <3> SUFFICES ASSUME T # {} PROVE FALSE
      OBVIOUS
    <3>1. T \subseteq Nat
      BY <1>1
    <3> HIDE DEF T
    <3>2. PICK x \in T : \A y \in T : x <= y
      BY <3>1, LeastMember
    <3>3. x \in 1 .. n /\ f[x] # Gives(w, Throw) /\ x # 1
      BY <2>1, <3>2 DEF T
    <3>4. x - 1 \in 1 .. n /\ x \in 0 .. n /\ x # 0 /\ ~(x <= x - 1)
      BY <1>1, <3>3
    <3>5. x - 1 \notin T
      BY <3>2, <3>4
    <3>6. f[x - 1] = Gives(w, Throw)
      BY <3>4, <3>5 DEF T
    <3>7. f[x] = ExecuteNext(f[x - 1], x)
      BY <1>5, <3>4
    <3> QED BY <3>3, <3>6, <3>7, ThenFacts
  <2>3. n \in 1 .. n
    BY <1>1, <1>8
  <2>4. f[n] = Gives(w, Throw)
    BY <2>2, <2>3
  <2>5. ~(n = 0) /\ ~(n = 1)
    BY <1>1, <1>8, NoneOrMore
  <2> QED BY <2>4, <2>5
<1>9. n = 0 \/ n = 1 \/ n > 1
  BY <1>1, NoneOrMore
<1> QED BY <1>6, <1>7, <1>8, <1>9

LEMMA StmtExecuteCases ==
  ASSUME NEW w, NEW ids, NEW h, Ready(w, ids, h), NEW o \in StmtExecute(w)
  PROVE  \/ o.w = w /\ o.ret = Throw
         \/ o.w = SetStmtState(w, "OPEN") /\ o.ret = Ok
         \/ /\ 1 \in DOMAIN w.st.m_resultsets
            /\ \E p \in ResultExecute(w, 1) :
                 IF p.ret = Ok THEN o.w = SetStmtState(p.w, "OPEN") /\ o.ret = Ok ELSE o = p
<1>1. CASE ~IsStmtPrepared(w.st)
  <2>1. o \in Gives(w, Throw)
    BY <1>1 DEF StmtExecute
  <2> QED BY <2>1, GivesFacts
<1>2. CASE IsStmtPrepared(w.st)
  <2> DEFINE n == Len(w.st.m_resultsets)
             f == CHOOSE g : ExecutesUpTo(g, w, n)
  <2>1. o \in Then(f[n], LAMBDA v : Gives(SetStmtState(v, "OPEN"), Ok))
    BY <1>2 DEF StmtExecute, ExecutesUpTo, ExecuteNext
  <2>2. f[n] = IF n = 0 THEN Gives(w, Ok) ELSE IF n = 1 THEN ResultExecute(w, 1) ELSE Gives(w, Throw)
    BY ExecutesFirst
  <2> HIDE DEF f
  <2>3. PICK p \in f[n] : IF p.ret = Ok THEN o \in Gives(SetStmtState(p.w, "OPEN"), Ok) ELSE o = p
    BY <2>1 DEF Then
  <2>4. IF p.ret = Ok THEN o.w = SetStmtState(p.w, "OPEN") /\ o.ret = Ok ELSE o = p
    BY <2>3, GivesFacts
  <2>5. n \in Nat /\ DOMAIN w.st.m_resultsets = 1 .. n
    BY StmtFacts DEF Ready, StmtFine
  <2> HIDE DEF n
  <2>6. CASE n = 0
    BY <2>2, <2>4, <2>6, GivesFacts
  <2>7. CASE n = 1
    BY <2>2, <2>4, <2>5, <2>7
  <2>8. CASE n > 1
    BY <2>2, <2>4, <2>8, GivesFacts, Words
  <2> QED BY <2>5, <2>6, <2>7, <2>8
<1> QED BY <1>1, <1>2

\* The state becomes OPEN.
LEMMA OpenedMoves ==
  ASSUME NEW w, NEW ids, NEW h, Ready(w, ids, h), NEW C, NEW R, NEW v, Moved(v, w, ids, C, R, {}, h)
  PROVE  LET z == SetStmtState(v, "OPEN")
         IN  Moved(z, w, ids, C, R, {}, h) /\ z.st.alive = v.st.alive
<1> DEFINE z == SetStmtState(v, "OPEN")
<1>1. /\ DOMAIN v = {"map", "trx", "st"} /\ StmtFine(v.st, v.map, v.trx, h) /\ v.st \in Statements
      /\ IsWorld(v)
  BY DEF Moved, Goes, IsWorld, StmtFine
<1>2. /\ DOMAIN z = {"map", "trx", "st"} /\ z.map = v.map /\ z.trx = v.trx
      /\ z.st \in Statements /\ "BAD" \notin z.st.m_cursorstate
      /\ z.st.m_resultsets = v.st.m_resultsets /\ z.st.alive = v.st.alive
      /\ z.st.m_localTrx = v.st.m_localTrx /\ z.st.m_currentTrx = v.st.m_currentTrx
      /\ z.st.owing = v.st.owing
      /\ IsStmtPrepared(z.st)
  BY <1>1, StmtStateSet
<1> HIDE DEF z
<1>3. StreamsOf(z.st) = StreamsOf(v.st)
  BY <1>2 DEF StreamsOf
<1>4. StmtFine(z.st, z.map, z.trx, h)
  BY <1>1, <1>2, <1>3 DEF StmtFine, ResultsFine, LocalFine, HasLocalTrx
<1>5. Goes(w, z, Spare(w), C, R)
  BY <1>1, <1>2 DEF Moved, Goes, IsWorld
<1>6. Moved(z, w, ids, C, R, {}, h)
  BY <1>2, <1>3, <1>4, <1>5 DEF Moved
<1> QED BY <1>2, <1>6 DEF z

LEMMA ExecuteMoves ==
  ASSUME NEW w, NEW ids, NEW h, Ready(w, ids, h), w.st.alive,
         StreamFree({w.st.m_currentTrx}, w.map, w.st), NEW o \in StmtExecute(w)
  PROVE  /\ o.ret \in {Ok, Throw}
         /\ Moved(o.w, w, ids, ExecCommits(w.st), ExecRolls(w.st), {}, h)
         /\ o.w.st.alive = w.st.alive
<1> DEFINE C == ExecCommits(w.st)
           R == ExecRolls(w.st)
<1>1. Moved(w, w, ids, C, R, {}, h)
  BY NothingMoves
<1>2. CASE o.w = w /\ o.ret = Throw
  BY <1>1, <1>2
<1>3. CASE o.w = SetStmtState(w, "OPEN") /\ o.ret = Ok
  <2> HIDE DEF C, R
  <2>1. /\ Moved(SetStmtState(w, "OPEN"), w, ids, C, R, {}, h)
        /\ SetStmtState(w, "OPEN").st.alive = w.st.alive
    BY <1>1, OpenedMoves
  <2> QED BY <1>3, <2>1 DEF C, R
<1>4. ASSUME 1 \in DOMAIN w.st.m_resultsets, NEW p \in ResultExecute(w, 1),
             IF p.ret = Ok THEN o.w = SetStmtState(p.w, "OPEN") /\ o.ret = Ok ELSE o = p
      PROVE  /\ o.ret \in {Ok, Throw}
             /\ Moved(o.w, w, ids, C, R, {}, h)
             /\ o.w.st.alive = w.st.alive
  <2>1. p.ret \in {Ok, Throw} /\ Moved(p.w, w, ids, C, R, {}, h) /\ p.w.st.alive = w.st.alive
    BY <1>4, ResultExecuteMoves
  <2> DEFINE v == p.w
             z == SetStmtState(v, "OPEN")
  <2> HIDE DEF C, R, v
  <2>2. Moved(v, w, ids, C, R, {}, h)
    BY <2>1 DEF v
  <2>3. Moved(z, w, ids, C, R, {}, h) /\ z.st.alive = v.st.alive
    BY <2>2, OpenedMoves
  <2> HIDE DEF z
  <2>4. IF p.ret = Ok THEN o.w = z /\ o.ret = Ok ELSE o = p
    BY <1>4 DEF z, v
  <2>5. v = p.w
    BY DEF v
  <2> QED BY <2>1, <2>3, <2>4, <2>5
<1>5. \/ o.w = w /\ o.ret = Throw
      \/ o.w = SetStmtState(w, "OPEN") /\ o.ret = Ok
      \/ /\ 1 \in DOMAIN w.st.m_resultsets
         /\ \E p \in ResultExecute(w, 1) :
              IF p.ret = Ok THEN o.w = SetStmtState(p.w, "OPEN") /\ o.ret = Ok ELSE o = p
  BY StmtExecuteCases
<1> HIDE DEF C, R
<1>6. /\ o.ret \in {Ok, Throw}
      /\ Moved(o.w, w, ids, C, R, {}, h)
      /\ o.w.st.alive = w.st.alive
  BY <1>2, <1>3, <1>4, <1>5 DEF C, R
<1> QED BY <1>6 DEF C, R

-----------------------------------------------------------------------------
(* close() and the destructor                                              *)

\* The resultset i of a statement is deleted after others.
DeleteNext(outcomes, i) ==
  Then(outcomes, LAMBDA v : {[w |-> v, ret |-> o.ret] :
                               o \in RsDestroy(v.st.m_resultsets[i], v.trx, dbc.m_dbh)})

LEMMA DeleteNextFacts ==
  ASSUME NEW w, StmtBase(w.st, w.trx, dbc.m_dbh), NEW i, i \in DOMAIN w.st.m_resultsets
  PROVE  DeleteNext(Gives(w, Ok), i) = Gives(w, Ok)
<1> DEFINE rs == w.st.m_resultsets[i]
           h  == dbc.m_dbh
           b  == [w |-> w, ret |-> Ok]
<1>1. ResultFine(rs, h) /\ BlobCloses(rs, w.trx)
  BY DEF StmtBase, ResultsFine, StreamsOf, BlobCloses
<1>2. b.w = w /\ b.ret = Ok /\ Gives(w, Ok) = {b}
  BY DEF Gives
<1>3. {[w |-> w, ret |-> o.ret] : o \in RsDestroy(rs, w.trx, h)} = {b}
  <2>1. \A o \in RsDestroy(rs, w.trx, h) : o.ret = Ok
    BY <1>1, DestroyedWell
  <2>2. RsDestroy(rs, w.trx, h) # {}
    BY DestroyGives
  <2> QED BY <2>1, <2>2
<1> HIDE DEF b
<1>4. DeleteNext({b}, i) = {b}
  BY <1>2, <1>3 DEF DeleteNext, Then
<1> QED BY <1>2, <1>4

\* The outcomes of the deletion up to the resultset i.
DeletesUpTo(f, w, n) ==
  f = [i \in 0 .. n |-> IF i = 0 THEN Gives(w, Ok) ELSE DeleteNext(f[i - 1], i)]

LEMMA DeletesAll ==
  ASSUME NEW w, StmtBase(w.st, w.trx, dbc.m_dbh), NEW n, n = Len(w.st.m_resultsets),
         NEW f, f = CHOOSE g : DeletesUpTo(g, w, n)
  PROVE  f[n] = Gives(w, Ok)
<1>1. n \in Nat /\ DOMAIN w.st.m_resultsets = 1 .. n
  BY StmtFacts DEF StmtBase
<1>2. \A i \in 1 .. n : DeleteNext(Gives(w, Ok), i) = Gives(w, Ok)
  BY <1>1, DeleteNextFacts
<1> DEFINE e == [i \in 0 .. n |-> Gives(w, Ok)]
<1>3. DeletesUpTo(e, w, n)
  <2>1. \A i \in 0 .. n : e[i] = Gives(w, Ok)
    OBVIOUS
  <2>2. e = [i \in 0 .. n |-> e[i]]
    OBVIOUS
  <2> HIDE DEF e
  <2>3. ASSUME NEW i \in 0 .. n
        PROVE  e[i] = IF i = 0 THEN Gives(w, Ok) ELSE DeleteNext(e[i - 1], i)
    <3>1. CASE i = 0
      BY <2>1, <3>1
    <3>2. CASE i # 0
      <4>1. i \in 1 .. n /\ i - 1 \in 0 .. n
        BY <1>1, <3>2
      <4> QED BY <1>2, <2>1, <3>2, <4>1
    <3> QED BY <3>1, <3>2
  <2> QED BY <2>2, <2>3 DEF DeletesUpTo
<1> HIDE DEF e
<1>4. DeletesUpTo(f, w, n)
  BY <1>3
<1>5. ASSUME NEW i \in 0 .. n
      PROVE  f[i] = IF i = 0 THEN Gives(w, Ok) ELSE DeleteNext(f[i - 1], i)
  BY <1>4 DEF DeletesUpTo
<1> DEFINE T == {i \in 0 .. n : f[i] # Gives(w, Ok)}
<1>6. T = {}
  <2> SUFFICES ASSUME T # {} PROVE FALSE
    OBVIOUS
  <2>1. T \subseteq Nat
    BY <1>1
  <2> HIDE DEF T
  <2>2. PICK x \in T : \A y \in T : x <= y
    BY <2>1, LeastMember
  <2>3. x \in 0 .. n /\ f[x] # Gives(w, Ok) /\ x # 0
    BY <1>5, <2>2 DEF T
  <2>4. x - 1 \in 0 .. n /\ x \in 1 .. n /\ ~(x <= x - 1)
    BY <1>1, <2>3
  <2>5. x - 1 \notin T
    BY <2>2, <2>4
  <2>6. f[x - 1] = Gives(w, Ok)
    BY <2>4, <2>5 DEF T
  <2> QED BY <1>2, <1>5, <2>3, <2>4, <2>6
<1>7. n \in 0 .. n
  BY <1>1
<1> QED BY <1>6, <1>7

\* A statement without its resultsets.
Emptied(st) == [st EXCEPT !.m_resultsets = <<>>, !.m_currentTrx = Invalid]

LEMMA DeletedCase ==
  ASSUME NEW w, IsWorld(w), StmtBase(w.st, w.trx, dbc.m_dbh), NEW o \in Deleted(w)
  PROVE  /\ o.ret = Ok /\ DOMAIN o.w = {"map", "trx", "st"}
         /\ o.w.map = w.map /\ o.w.trx = w.trx /\ o.w.st = Emptied(w.st)
<1> DEFINE n == Len(w.st.m_resultsets)
           f == CHOOSE g : DeletesUpTo(g, w, n)
           v == [w EXCEPT !.st.m_resultsets = <<>>, !.st.m_currentTrx = Invalid]
<1>1. o \in Then(f[n], LAMBDA u : Gives([u EXCEPT !.st.m_resultsets = <<>>,
                                                  !.st.m_currentTrx = Invalid], Ok))
  BY DEF Deleted, DeletesUpTo, DeleteNext
<1>2. f[n] = Gives(w, Ok)
  BY DeletesAll
<1> HIDE DEF f, n
<1>3. PICK p \in Gives(w, Ok) :
        IF p.ret = Ok THEN o \in Gives([p.w EXCEPT !.st.m_resultsets = <<>>,
                                                   !.st.m_currentTrx = Invalid], Ok)
        ELSE o = p
  BY <1>1, <1>2 DEF Then
<1>4. p.w = w /\ p.ret = Ok
  BY GivesFacts
<1>5. o \in Gives(v, Ok)
  BY <1>3, <1>4
<1>6. v = [w EXCEPT !.st = Emptied(w.st)]
  BY DEF IsWorld, Emptied
<1>7. DOMAIN v = {"map", "trx", "st"} /\ v.map = w.map /\ v.trx = w.trx /\ v.st = Emptied(w.st)
  BY <1>6 DEF IsWorld
<1> HIDE DEF v
<1> QED BY <1>5, <1>7, GivesFacts

LEMMA EmptiedFacts ==
  ASSUME NEW st \in Statements
  PROVE  /\ Emptied(st) \in Statements /\ Emptied(st).m_resultsets = <<>>
         /\ Emptied(st).m_currentTrx = Invalid /\ Emptied(st).m_localTrx = st.m_localTrx
         /\ Emptied(st).alive = st.alive /\ Emptied(st).owing = st.owing
         /\ Emptied(st).m_cursorstate = st.m_cursorstate
<1> DEFINE a == [st EXCEPT !.m_resultsets = <<>>]
           b == [a EXCEPT !.m_currentTrx = Invalid]
<1>1. <<>> \in Seq(Results) /\ Invalid \in Nat
  BY EmptySeq DEF Invalid
<1>2. /\ a \in Statements /\ a.m_resultsets = <<>> /\ a.m_localTrx = st.m_localTrx
      /\ a.alive = st.alive /\ a.owing = st.owing /\ a.m_cursorstate = st.m_cursorstate
  BY <1>1 DEF Statements
<1> HIDE DEF a
<1>3. /\ b \in Statements /\ b.m_resultsets = <<>> /\ b.m_localTrx = st.m_localTrx
      /\ b.alive = st.alive /\ b.owing = st.owing /\ b.m_cursorstate = st.m_cursorstate
      /\ b.m_currentTrx = Invalid
  BY <1>1, <1>2 DEF Statements
<1>4. Emptied(st) = b
  BY DEF Emptied, a
<1> HIDE DEF b
<1> QED BY <1>3, <1>4

\* A statement without resultsets.
LEMMA EmptyFine ==
  ASSUME NEW st \in Statements, "BAD" \notin st.m_cursorstate, st.m_resultsets = <<>>,
         st.m_currentTrx = Invalid, NEW m, LocalFine(st, m), NEW t, NEW h
  PROVE  StmtFine(st, m, t, h) /\ StreamsOf(st) = {}
<1>1. DOMAIN st.m_resultsets = {}
  BY EmptySeq
<1>2. StreamsOf(st) = {}
  BY <1>1 DEF StreamsOf
<1>3. ResultsFine(st, h)
  BY <1>1 DEF ResultsFine
<1> QED BY <1>2, <1>3 DEF StmtFine

LEMMA CommitOutcome == ASSUME NEW w, NEW id, NEW o \in Commit(w, id) PROVE IsOutcome(o)
BY GivesOutcome DEF Commit

\* The local transaction of the statement of e is committed.
LEMMA EndLocalCase ==
  ASSUME NEW e, IsWorld(e), "BAD" \notin e.st.m_cursorstate, NEW p \in EndLocal(e),
         HasLocalTrx(e.st) => e.st.m_localTrx \in DOMAIN e.map
  PROVE  LET l == e.st.m_localTrx
         IN  /\ IsOutcome(p) /\ p.ret \in {Ok, Throw}
             /\ Goes(e, p.w, {}, {l}, {}) /\ p.w.st = e.st /\ DOMAIN p.w.map = DOMAIN e.map
             /\ p.ret = Ok /\ HasLocalTrx(e.st) => p.w.map[l] = NoTrx
             /\ p.ret = Throw => p.w = e
             /\ ~HasLocalTrx(e.st) \/ e.map[l] = NoTrx => p.ret = Ok
<1> DEFINE l == e.st.m_localTrx
           C == {l}
<1>1. CASE ~HasLocalTrx(e.st)
  <2>1. p \in Gives(e, Ok)
    BY <1>1 DEF EndLocal
  <2>2. p.w = e /\ p.ret = Ok /\ IsOutcome(p)
    BY <2>1, GivesFacts, GivesOutcome
  <2> HIDE DEF C
  <2>3. Goes(e, e, {}, C, {})
    BY GoesSame
  <2> QED BY <1>1, <2>2, <2>3, Words DEF C
<1>2. CASE HasLocalTrx(e.st)
  <2>1. p \in Commit(e, l) /\ l \in DOMAIN e.map
    BY <1>2 DEF EndLocal
  <2>2. Concluded(p, e, l, C, {})
    <3>1. l \in C
      OBVIOUS
    <3> HIDE DEF C, l
    <3> QED BY <2>1, <3>1, CommitConcludes
  <2>3. e.map[l] = NoTrx => p.ret = Ok
    <3> SUFFICES ASSUME e.map[l] = NoTrx PROVE p.ret = Ok
      OBVIOUS
    <3>1. p \in Gives(e, Ok)
      BY <2>1 DEF Commit, Known, Handle
    <3> QED BY <3>1, GivesFacts
  <2>4. IsOutcome(p)
    BY <2>1, CommitOutcome
  <2> QED BY <1>2, <2>2, <2>3, <2>4 DEF Concluded
<1> QED BY <1>1, <1>2

LEMMA CloseMoves ==
  ASSUME NEW w, NEW ids, Ready(w, ids, dbc.m_dbh), NEW o \in StmtClose(w)
  PROVE  LET l == w.st.m_localTrx
         IN  /\ o.ret \in {Ok, Throw} /\ IsOutcome(o)
             /\ Moved(o.w, w, ids, {l}, {}, {}, dbc.m_dbh)
             /\ o.w.st.alive = w.st.alive /\ o.w.st.m_resultsets = <<>>
             /\ o.w.st.m_localTrx = l /\ o.w.st.m_currentTrx = Invalid
             /\ o.ret = Ok /\ HasLocalTrx(w.st) => o.w.map[l] = NoTrx
             /\ ~HasLocalTrx(w.st) \/ w.map[l] = NoTrx => o.ret = Ok
<1> DEFINE h == dbc.m_dbh
           l == w.st.m_localTrx
           C == {l}
<1>1. /\ IsWorld(w) /\ StmtFine(w.st, w.map, w.trx, h) /\ StmtBase(w.st, w.trx, h)
      /\ w.st \in Statements /\ "BAD" \notin w.st.m_cursorstate
      /\ HasLocalTrx(w.st) => l \in DOMAIN w.map /\ l # Own
  BY BaseFine DEF Ready, StmtFine, LocalFine
<1>2. PICK p \in Then(Deleted(w), EndLocal) :
        o = [p EXCEPT !.w.st.m_cursorstate = IF p.ret = Ok THEN CLOSED ELSE @,
                      !.w.st.owing = p.ret = Throw]
  BY DEF StmtClose
<1>3. PICK d \in Deleted(w) : IF d.ret = Ok THEN p \in EndLocal(d.w) ELSE p = d
  BY DEF Then
<1> DEFINE e == d.w
<1>4. /\ d.ret = Ok /\ DOMAIN e = {"map", "trx", "st"}
      /\ e.map = w.map /\ e.trx = w.trx /\ e.st = Emptied(w.st)
  BY <1>1, DeletedCase
<1>5. p \in EndLocal(e)
  BY <1>3, <1>4
<1> HIDE DEF e
<1>6. /\ e.st \in Statements /\ e.st.m_resultsets = <<>>
      /\ e.st.m_currentTrx = Invalid /\ e.st.m_localTrx = l
      /\ e.st.alive = w.st.alive /\ e.st.owing = w.st.owing
      /\ e.st.m_cursorstate = w.st.m_cursorstate
      /\ IsWorld(e) /\ (HasLocalTrx(e.st) <=> HasLocalTrx(w.st))
  BY <1>1, <1>4, EmptiedFacts DEF IsWorld, HasLocalTrx
<1>7. /\ IsOutcome(p) /\ p.ret \in {Ok, Throw}
      /\ Goes(e, p.w, {}, C, {}) /\ p.w.st = e.st /\ DOMAIN p.w.map = DOMAIN w.map
      /\ p.ret = Ok /\ HasLocalTrx(w.st) => p.w.map[l] = NoTrx
      /\ p.ret = Throw => p.w = e
      /\ ~HasLocalTrx(w.st) \/ w.map[l] = NoTrx => p.ret = Ok
  <2> DEFINE k == e.st.m_localTrx
  <2>1. "BAD" \notin e.st.m_cursorstate
    BY <1>1, <1>6
  <2>2. HasLocalTrx(e.st) => e.st.m_localTrx \in DOMAIN e.map
    BY <1>1, <1>4, <1>6
  <2>3. /\ IsOutcome(p) /\ p.ret \in {Ok, Throw}
        /\ Goes(e, p.w, {}, {k}, {}) /\ p.w.st = e.st /\ DOMAIN p.w.map = DOMAIN e.map
        /\ p.ret = Ok /\ HasLocalTrx(e.st) => p.w.map[k] = NoTrx
        /\ p.ret = Throw => p.w = e
        /\ ~HasLocalTrx(e.st) \/ e.map[k] = NoTrx => p.ret = Ok
    BY <1>5, <1>6, <2>1, <2>2, EndLocalCase
  <2>4. k = l
    BY <1>6
  <2> HIDE DEF k
  <2> QED BY <1>4, <1>6, <2>3, <2>4
<1> DEFINE s == IF p.ret = Ok THEN CLOSED ELSE w.st.m_cursorstate
           b == (p.ret = Throw)
           q0 == [e.st EXCEPT !.m_cursorstate = s]
           q  == [q0 EXCEPT !.owing = b]
           v == [p.w EXCEPT !.st = q]
           n == p.w.map
           u == p.w.trx
<1>8. DOMAIN p.w = {"map", "trx", "st"} /\ Mapped(n, u)
  BY <1>7 DEF Goes, IsWorld
<1>9. o = [p EXCEPT !.w = v]
  BY <1>2, <1>6, <1>7, <1>8 DEF IsOutcome
<1>10. o.w = v /\ o.ret = p.ret /\ IsOutcome(o)
  BY <1>7, <1>9 DEF IsOutcome
<1>11. DOMAIN v = {"map", "trx", "st"} /\ v.map = n /\ v.trx = u /\ v.st = q
  BY <1>8
<1> HIDE DEF v, n, u
<1>12. s \in SUBSET CursorFlags /\ "BAD" \notin s /\ b \in BOOLEAN /\ (p.ret = Throw => b = TRUE)
  BY <1>1, StmtFacts DEF CLOSED
<1> HIDE DEF s, b
<1>13. /\ q0 \in Statements /\ q0.m_resultsets = <<>> /\ q0.m_currentTrx = Invalid
       /\ q0.m_localTrx = l /\ q0.alive = w.st.alive /\ q0.m_cursorstate = s
  BY <1>6, <1>12 DEF Statements
<1> HIDE DEF q0
<1>14. /\ q \in Statements /\ q.m_resultsets = <<>> /\ q.m_currentTrx = Invalid
       /\ q.m_localTrx = l /\ q.alive = w.st.alive /\ q.m_cursorstate = s /\ q.owing = b
  BY <1>12, <1>13 DEF Statements
<1> HIDE DEF q
<1>15. LocalFine(q, n)
  <2> SUFFICES ASSUME HasLocalTrx(q)
               PROVE  l \in DOMAIN n \ {Own} /\ (n[l] # NoTrx => q.alive /\ q.owing)
    BY <1>14 DEF LocalFine
  <2>1. HasLocalTrx(w.st)
    BY <1>14 DEF HasLocalTrx
  <2>2. l \in DOMAIN n /\ l # Own
    BY <1>1, <1>7, <2>1 DEF n
  <2>3. ASSUME n[l] # NoTrx PROVE q.alive /\ q.owing
    <3>1. p.ret = Throw
      BY <1>7, <2>1, <2>3 DEF n
    <3>2. n = w.map
      BY <1>4, <1>7, <3>1 DEF n
    <3>3. w.st.alive
      BY <1>1, <2>1, <2>3, <3>2 DEF StmtFine, LocalFine
    <3> QED BY <1>12, <1>14, <3>1, <3>3
  <2> QED BY <2>2, <2>3
<1>16. StmtFine(q, n, u, h) /\ StreamsOf(q) = {}
  BY <1>12, <1>14, <1>15, EmptyFine
<1>17. Goes(w, v, Spare(w), C, {})
  <2>1. Evolves(w.map, w.trx, n, u, {}, C, {})
    BY <1>4, <1>7 DEF Goes, n, u
  <2> DEFINE m == w.map
             t == w.trx
             S == Spare(w)
  <2> HIDE DEF C, m, t, S
  <2>2. Evolves(m, t, n, u, {}, C, {})
    BY <2>1 DEF m, t
  <2>3. Evolves(m, t, n, u, S, C, {})
    BY <2>2, EvolvesWithin
  <2> QED BY <1>8, <1>11, <2>3 DEF Goes, IsWorld, m, t, S, n, u
<1>18. DOMAIN n = DOMAIN w.map
  BY <1>7 DEF n
<1>19. Moved(v, w, ids, C, {}, {}, h)
  <2> HIDE DEF C
  <2> QED BY <1>11, <1>14, <1>16, <1>17, <1>18 DEF Moved
<1>20. p.ret = Ok /\ HasLocalTrx(w.st) => n[l] = NoTrx
  BY <1>7 DEF n
<1> QED BY <1>7, <1>10, <1>11, <1>14, <1>19, <1>20

\* The statement of a world that has moved is replaced by another.
LEMMA StatementReplaced ==
  ASSUME NEW w, NEW ids, NEW h, NEW C, NEW R, NEW X, NEW u, Moved(u, w, ids, C, R, X, h),
         NEW v, DOMAIN v = {"map", "trx", "st"}, v.map = u.map, v.trx = u.trx,
         StmtFine(v.st, u.map, u.trx, h), StreamsOf(v.st) = {},
         v.st.m_localTrx = u.st.m_localTrx, v.st.m_currentTrx = u.st.m_currentTrx
  PROVE  Moved(v, w, ids, C, R, X, h)
<1>1. Goes(w, v, Spare(w), C, R)
  <2> DEFINE S == Spare(w)
  <2> HIDE DEF S
  <2>1. Goes(w, u, S, C, R)
    BY DEF Moved, S
  <2>2. Goes(w, v, S, C, R)
    BY <2>1 DEF Goes, IsWorld
  <2> QED BY <2>2 DEF S
<1> QED BY <1>1 DEF Moved

\* The destructor rolls the local transaction back.
EndsInDestroy(w) ==
  IF HasLocalTrx(w.st) THEN Discard(w, w.st.m_localTrx) ELSE Gives(w, Ok)

LEMMA RolledBackMoves ==
  ASSUME NEW w, NEW ids, Ready(w, ids, dbc.m_dbh), NEW l, l = w.st.m_localTrx,
         StreamFree({l}, w.map, w.st), NEW a \in EndsInDestroy(w), a.ret # Terminated
  PROVE  /\ a.ret = Ok /\ Moved(a.w, w, ids, {}, {l}, {}, dbc.m_dbh) /\ a.w.st = w.st
         /\ HasLocalTrx(w.st) => a.w.map[l] = NoTrx
         /\ DOMAIN a.w.map = DOMAIN w.map
<1> DEFINE h == dbc.m_dbh
           R == {l}
<1>1. IsWorld(w) /\ StmtFine(w.st, w.map, w.trx, h) /\ Mapped(w.map, w.trx)
  BY DEF Ready, IsWorld
<1>2. CASE ~HasLocalTrx(w.st)
  <2>1. a.w = w /\ a.ret = Ok
    BY <1>2, GivesFacts DEF EndsInDestroy
  <2> HIDE DEF R, h
  <2>2. Moved(w, w, ids, {}, R, {}, h)
    BY NothingMoves DEF h
  <2> QED BY <1>2, <2>1, <2>2 DEF R, h
<1>3. CASE HasLocalTrx(w.st)
  <2>1. l \in DOMAIN w.map /\ l # Own
    BY <1>1, <1>3 DEF StmtFine, LocalFine
  <2>2. a \in Discard(w, l)
    BY <1>3 DEF EndsInDestroy
  <2>3. l \in R
    OBVIOUS
  <2>4. Concluded(a, w, l, {}, R) /\ a.ret = Ok
    <3> HIDE DEF R
    <3> QED BY <1>1, <2>1, <2>2, <2>3, DiscardConcludes DEF Known
  <2> DEFINE m == w.map
             t == w.trx
             n == a.w.map
             u == a.w.trx
  <2>5. /\ Evolves(m, t, n, u, {}, {}, R) /\ IsWorld(a.w) /\ a.w.st = w.st
        /\ DOMAIN n = DOMAIN m /\ n[l] = NoTrx
    BY <2>4 DEF Concluded, Goes
  <2>6. StreamFree({} \union R, m, w.st)
    BY {} \union R = R
  <2> HIDE DEF R, m, t, n, u
  <2>7. StmtFine(w.st, n, u, h)
    <3>1. w.st.m_localTrx \notin {} \ {Invalid}
      OBVIOUS
    <3>2. StmtFine(w.st, m, t, h) /\ Mapped(m, t)
      BY <1>1 DEF m, t
    <3> QED BY <2>5, <2>6, <3>1, <3>2, StmtStays
  <2>8. Goes(w, a.w, Spare(w), {}, R)
    <3> DEFINE S == Spare(w)
    <3> HIDE DEF S
    <3>1. Evolves(m, t, n, u, S, {}, R)
      BY <2>5, EvolvesWithin
    <3> QED BY <2>5, <3>1 DEF Goes, m, t, n, u, S
  <2>9. Moved(a.w, w, ids, {}, R, {}, h)
    <3>1. w.st.m_currentTrx \in {Invalid, Own, w.st.m_localTrx} \union ids
      BY DEF Ready
    <3> QED BY <2>5, <2>7, <2>8, <3>1 DEF Moved, m, t, n, u
  <2> QED BY <2>4, <2>5, <2>9 DEF m, n, h, R
<1> QED BY <1>2, <1>3

\* A refused rollback leaves the world as it is.
LEMMA NotRolledBack ==
  ASSUME NEW w, NEW ids, Ready(w, ids, dbc.m_dbh), NEW a \in EndsInDestroy(w), a.ret = Terminated
  PROVE  a.w = w
<1>1. CASE ~HasLocalTrx(w.st)
  <2>1. a.ret = Ok
    BY <1>1, GivesFacts DEF EndsInDestroy
  <2> QED BY <2>1, Words
<1>2. CASE HasLocalTrx(w.st)
  <2> DEFINE l == w.st.m_localTrx
             R == {l}
  <2>1. IsWorld(w) /\ Known(w, l) /\ a \in Discard(w, l) /\ l \in R
    BY <1>2 DEF Ready, StmtFine, LocalFine, EndsInDestroy, Known
  <2> HIDE DEF l, R
  <2>2. a.ret = Ok \/ a.w = w
    BY <2>1, DiscardConcludes
  <2> QED BY <2>2, Words
<1> QED BY <1>1, <1>2

\* A statement with the local transaction l is deleted, or the program has ended.
Destroyed(o, w, ids, l, h) ==
  /\ o.ret \in {Ok, Terminated}
  /\ Moved(o.w, w, ids, {}, {l}, {}, h)
  /\ o.w.st.m_localTrx = l
  /\ o.ret = Terminated => o.w = w
  /\ o.ret = Ok => /\ ~o.w.st.alive /\ o.w.st.m_resultsets = <<>>
                   /\ HasLocalTrx(w.st) => o.w.map[l] = NoTrx

LEMMA DestroyMoves ==
  ASSUME NEW w, NEW ids, Ready(w, ids, dbc.m_dbh), NEW l, l = w.st.m_localTrx,
         StreamFree({l}, w.map, w.st), NEW o \in StmtDestroy(w)
  PROVE  Destroyed(o, w, ids, l, dbc.m_dbh)
<1> DEFINE h == dbc.m_dbh
           R == {l}
<1>1. PICK a \in EndsInDestroy(w) :
        IF a.ret = Ok THEN \E p \in StmtClose(a.w) :
                             o = [p EXCEPT !.w.st.alive = FALSE, !.ret = IF @ = Throw THEN Abort ELSE @]
                      ELSE o = a
  <2>1. PICK a \in EndsInDestroy(w) :
          o \in IF a.ret = Ok
                THEN {[p EXCEPT !.w.st.alive = FALSE, !.ret = IF @ = Throw THEN Abort ELSE @] : p \in StmtClose(a.w)}
                ELSE {a}
    BY DEF StmtDestroy, EndsInDestroy, Then
  <2> QED BY <2>1
<1>a. CASE a.ret = Terminated
  <2>1. o.w = w /\ o.ret = Terminated
    BY <1>1, <1>a, NotRolledBack, Words
  <2> HIDE DEF R, h
  <2>2. Moved(w, w, ids, {}, R, {}, h)
    BY NothingMoves DEF h
  <2> QED BY <2>1, <2>2, Words DEF Destroyed, R, h
<1>b. SUFFICES ASSUME a.ret # Terminated PROVE Destroyed(o, w, ids, l, dbc.m_dbh)
  BY <1>a
<1> DEFINE v == a.w
<1>3. /\ a.ret = Ok /\ Moved(v, w, ids, {}, R, {}, h) /\ v.st = w.st
      /\ HasLocalTrx(w.st) => v.map[l] = NoTrx
      /\ DOMAIN v.map = DOMAIN w.map
  BY <1>b, RolledBackMoves
<1>4. PICK p \in StmtClose(v) : o = [p EXCEPT !.w.st.alive = FALSE, !.ret = IF @ = Throw THEN Abort ELSE @]
  BY <1>1, <1>3
<1> HIDE DEF v, R
<1>5. Ready(v, ids, h)
  BY <1>3, MovedReady
<1>6. /\ p.ret \in {Ok, Throw} /\ IsOutcome(p)
      /\ Moved(p.w, v, ids, {l}, {}, {}, h)
      /\ p.w.st.alive = v.st.alive /\ p.w.st.m_resultsets = <<>>
      /\ p.w.st.m_localTrx = l /\ p.w.st.m_currentTrx = Invalid
      /\ p.ret = Ok /\ HasLocalTrx(v.st) => p.w.map[l] = NoTrx
      /\ ~HasLocalTrx(v.st) \/ v.map[l] = NoTrx => p.ret = Ok
  <2> DEFINE k == v.st.m_localTrx
  <2>1. /\ p.ret \in {Ok, Throw} /\ IsOutcome(p)
        /\ Moved(p.w, v, ids, {k}, {}, {}, h)
        /\ p.w.st.alive = v.st.alive /\ p.w.st.m_resultsets = <<>>
        /\ p.w.st.m_localTrx = k /\ p.w.st.m_currentTrx = Invalid
        /\ p.ret = Ok /\ HasLocalTrx(v.st) => p.w.map[k] = NoTrx
        /\ ~HasLocalTrx(v.st) \/ v.map[k] = NoTrx => p.ret = Ok
    BY <1>4, <1>5, CloseMoves
  <2>2. k = l
    BY <1>3
  <2> HIDE DEF k
  <2> QED BY <2>1, <2>2
<1>7. /\ p.ret = Ok
      /\ HasLocalTrx(w.st) => p.w.map[l] = NoTrx
  BY <1>3, <1>6
<1>8. Moved(p.w, v, ids, {}, R, {}, h)
  <2> DEFINE C == {l}
  <2>1. \A id \in C \intersect DOMAIN v.map : v.map[id] # NoTrx => id \in {}
    <3>1. CASE HasLocalTrx(w.st)
      BY <1>3, <3>1
    <3>2. CASE ~HasLocalTrx(w.st)
      <4>1. l = Invalid
        BY <3>2 DEF HasLocalTrx
      <4>2. Mapped(v.map, v.trx)
        BY <1>5 DEF Ready, IsWorld
      <4>3. l \notin DOMAIN v.map
        BY <4>1, <4>2, MapFacts DEF Invalid
      <4> QED BY <4>3
    <3> QED BY <3>1, <3>2
  <2>2. Moved(p.w, v, ids, C, {}, {}, h)
    BY <1>6
  <2>3. \A id \in {} \intersect DOMAIN v.map : v.map[id] # NoTrx => id \in R
    OBVIOUS
  <2> HIDE DEF C
  <2> QED BY <1>5, <2>1, <2>2, <2>3, MovedWithin
<1>9. Moved(p.w, w, ids, {}, R, {}, h)
  <2>1. v.st.m_currentTrx \in Spare(w)
    BY <1>3 DEF Spare
  <2>2. v.st.m_localTrx = w.st.m_localTrx
    BY <1>3
  <2> QED BY <1>3, <1>8, <2>1, <2>2, MovedTwice
<1> DEFINE q == [p.w.st EXCEPT !.alive = FALSE]
           z == [p.w EXCEPT !.st = q]
<1>10. p.w.st \in Statements /\ DOMAIN p.w = {"map", "trx", "st"} /\ StmtFine(p.w.st, p.w.map, p.w.trx, h)
  BY <1>9 DEF Moved, StmtFine, Goes, IsWorld
<1>11. o.w = z /\ o.ret = Ok
  BY <1>4, <1>6, <1>7, <1>10, Words DEF IsOutcome
<1>12. DOMAIN z = {"map", "trx", "st"} /\ z.map = p.w.map /\ z.trx = p.w.trx /\ z.st = q
  BY <1>10
<1>13. /\ q \in Statements /\ q.m_resultsets = <<>> /\ q.m_localTrx = l
       /\ q.m_currentTrx = Invalid /\ q.m_cursorstate = p.w.st.m_cursorstate
  BY <1>6, <1>10 DEF Statements
<1>14. q.alive = FALSE
  BY <1>10 DEF Statements
<1> HIDE DEF q, z
<1>15. "BAD" \notin q.m_cursorstate
  BY <1>10, <1>13 DEF StmtFine
<1>16. LocalFine(q, p.w.map)
  <2>1. HasLocalTrx(q) <=> HasLocalTrx(w.st)
    BY <1>13 DEF HasLocalTrx
  <2>2. HasLocalTrx(q) => l \in DOMAIN p.w.map \ {Own}
    BY <1>6, <1>10, <1>13 DEF StmtFine, LocalFine, HasLocalTrx
  <2> QED BY <1>7, <1>13, <2>1, <2>2 DEF LocalFine
<1>17. StmtFine(q, p.w.map, p.w.trx, h) /\ StreamsOf(q) = {}
  BY <1>13, <1>15, <1>16, EmptyFine
<1>18. Moved(z, w, ids, {}, R, {}, h)
  BY <1>6, <1>9, <1>12, <1>13, <1>17, StatementReplaced
<1> QED BY <1>7, <1>11, <1>12, <1>13, <1>14, <1>18, Words DEF R, Destroyed

-----------------------------------------------------------------------------
(* A command in a statement of its own                                     *)

\* The places whose transactions a command of the kind may commit or roll back:
\* the connection's, if its text says so, and those made for the command.
CmdCommits(w, kind) == CommitsBy(kind, Own) \union (Nat \ DOMAIN w.map)
CmdRolls(w, kind)   == RollsBy(kind, Own) \union (Nat \ DOMAIN w.map)

Commands(v, w, kind, h) ==
  Moved(v, w, {}, CmdCommits(w, kind), CmdRolls(w, kind), {}, h)

\* A new statement in the world w.
Fresh(w, h) == Ready(w, {}, h) /\ w.st = NewStmt

LEMMA NoStreams ==
  ASSUME NEW S, NEW m, NEW st, StreamsOf(st) = {}
  PROVE  StreamFree(S, m, st)
BY DEF StreamFree

LEMMA CommandsFacts ==
  ASSUME NEW w, NEW kind, NEW h, Fresh(w, h), NEW v, Commands(v, w, kind, h)
  PROVE  /\ Ready(v, {}, h) /\ StreamsOf(v.st) = {}
         /\ v.st.m_localTrx \in Nat \ DOMAIN w.map
         /\ v.st.m_currentTrx \in {Own} \union (Nat \ DOMAIN w.map)
         /\ v.st.m_currentTrx \in Spare(w)
         /\ v.st.m_currentTrx \in {Invalid, Own, v.st.m_localTrx}
         /\ DOMAIN w.map \subseteq DOMAIN v.map
<1> DEFINE C == CmdCommits(w, kind)
           R == CmdRolls(w, kind)
<1>1. Moved(v, w, {}, C, R, {}, h) /\ Ready(w, {}, h)
  BY DEF Commands, Fresh
<1> HIDE DEF C, R
<1>2. Ready(v, {}, h)
  BY <1>1, MovedReady
<1>3. /\ w.st.m_localTrx = Invalid /\ StreamsOf(w.st) = {} /\ w.st.m_currentTrx = Invalid
  BY NewStmtFine DEF Fresh
<1>4. Invalid \in Nat \ DOMAIN w.map
  BY <1>1, MapFacts DEF Ready, IsWorld, Invalid
<1>5. /\ v.st.m_localTrx \in Nat \ DOMAIN w.map
      /\ v.st.m_currentTrx \in {Invalid, Own, v.st.m_localTrx}
      /\ StreamsOf(v.st) = {}
  BY <1>1, <1>3, <1>4 DEF Moved
<1>6. DOMAIN w.map \subseteq DOMAIN v.map
  BY <1>1 DEF Moved, Goes, Evolves
<1>7. v.st.m_currentTrx \in {Own} \union (Nat \ DOMAIN w.map)
  BY <1>4, <1>5
<1>8. v.st.m_currentTrx \in Spare(w)
  BY <1>7 DEF Spare
<1> QED BY <1>2, <1>5, <1>6, <1>7, <1>8

LEMMA CommandsOn ==
  ASSUME NEW w, NEW kind, NEW h, Fresh(w, h), NEW v, Commands(v, w, kind, h),
         NEW C, NEW R, NEW u, Moved(u, v, {}, C, R, {}, h),
         C \subseteq CmdCommits(w, kind), R \subseteq CmdRolls(w, kind)
  PROVE  Commands(u, w, kind, h)
<1> DEFINE D == CmdCommits(w, kind)
           Q == CmdRolls(w, kind)
<1>1. Moved(v, w, {}, D, Q, {}, h) /\ Ready(w, {}, h)
  BY DEF Commands, Fresh
<1>2. Ready(v, {}, h) /\ v.st.m_currentTrx \in Spare(w)
      /\ v.st.m_currentTrx \in {Invalid, Own, v.st.m_localTrx}
  BY CommandsFacts
<1>3. /\ \A id \in C \intersect DOMAIN v.map : v.map[id] # NoTrx => id \in D
      /\ \A id \in R \intersect DOMAIN v.map : v.map[id] # NoTrx => id \in Q
  OBVIOUS
<1> HIDE DEF D, Q
<1>4. Moved(u, v, {}, D, Q, {}, h)
  BY <1>2, <1>3, MovedWithin
<1>5. Moved(u, w, {}, D, Q, {}, h)
  BY <1>1, <1>2, <1>4, MovedTwice
<1> QED BY <1>5 DEF Commands, D, Q

\* The command's statement after its prepare().
Starting(p, w, kind, h) ==
  /\ p.ret \in {Ok, Throw} /\ Moved(p.w, w, {}, {}, {}, {}, h)
  /\ TextsOf(p.w.st) \subseteq {kind} /\ p.w.st.alive

AllStarting(prepared, w, kind, h) == \A p \in prepared : Starting(p, w, kind, h)

\* The command is done, and nothing is left of its transactions if the program goes on.
Done(o, w, kind, h) ==
  /\ o.ret \in {Ok, Throw, Terminated} /\ Commands(o.w, w, kind, h)
  /\ o.ret # Terminated => \A id \in DOMAIN o.w.map \ DOMAIN w.map : o.w.map[id] = NoTrx

LEMMA CommandedMoves ==
  ASSUME NEW w, NEW kind, Fresh(w, dbc.m_dbh),
         NEW prepared, AllStarting(prepared, w, kind, dbc.m_dbh), NEW o \in Commanded(prepared)
  PROVE  Done(o, w, kind, dbc.m_dbh)
<1> DEFINE h == dbc.m_dbh
           Good(q) == q.ret \in {Ok, Throw} /\ Commands(q.w, w, kind, h)
<1>1. PICK c \in Then(ExecDirect(prepared), StmtClose) :
        \E d \in StmtDestroy(c.w) : o = [w |-> d.w, ret |-> IF d.ret = Ok THEN c.ret ELSE d.ret]
  BY DEF Commanded
<1>2. PICK d \in StmtDestroy(c.w) : o = [w |-> d.w, ret |-> IF d.ret = Ok THEN c.ret ELSE d.ret]
  BY <1>1
<1>3. PICK e \in ExecDirect(prepared) : IF e.ret = Ok THEN c \in StmtClose(e.w) ELSE c = e
  BY DEF Then
<1>4. PICK p \in prepared : IF p.ret = Ok THEN e \in StmtExecute(p.w) ELSE e = p
  BY DEF ExecDirect, Then
<1>5. Commands(w, w, kind, h)
  <2>1. Ready(w, {}, h)
    BY DEF Fresh
  <2> DEFINE D == CmdCommits(w, kind)
             Q == CmdRolls(w, kind)
  <2> HIDE DEF D, Q
  <2>2. Moved(w, w, {}, D, Q, {}, h)
    BY <2>1, NothingMoves
  <2> QED BY <2>2 DEF Commands, D, Q
<1>6. p.ret \in {Ok, Throw} /\ TextsOf(p.w.st) \subseteq {kind} /\ p.w.st.alive
      /\ Moved(p.w, w, {}, {}, {}, {}, h)
  BY DEF Starting, AllStarting
<1>7. Commands(p.w, w, kind, h)
  BY <1>5, <1>6, CommandsOn
<1>8. Good(e)
  <2>1. CASE p.ret # Ok
    BY <1>4, <1>6, <1>7, <2>1
  <2>2. CASE p.ret = Ok
    <3> DEFINE v == p.w
               C == ExecCommits(v.st)
               R == ExecRolls(v.st)
    <3>1. e \in StmtExecute(v)
      BY <1>4, <2>2
    <3>2. /\ Ready(v, {}, h) /\ StreamFree({v.st.m_currentTrx}, v.map, v.st)
          /\ v.st.m_localTrx \in Nat \ DOMAIN w.map
          /\ v.st.m_currentTrx \in {Own} \union (Nat \ DOMAIN w.map)
      <4>1. Commands(v, w, kind, h)
        BY <1>7
      <4> HIDE DEF v
      <4>2. /\ Ready(v, {}, h) /\ StreamsOf(v.st) = {}
            /\ v.st.m_localTrx \in Nat \ DOMAIN w.map
            /\ v.st.m_currentTrx \in {Own} \union (Nat \ DOMAIN w.map)
        BY <4>1, CommandsFacts
      <4> QED BY <4>2, NoStreams
    <3>3. e.ret \in {Ok, Throw} /\ Moved(e.w, v, {}, C, R, {}, h)
      BY <1>6, <3>1, <3>2, ExecuteMoves
    <3>4. C \subseteq CmdCommits(w, kind) /\ R \subseteq CmdRolls(w, kind)
      BY <1>6, <3>2 DEF ExecCommits, ExecRolls, CmdCommits, CmdRolls, CommitsBy, RollsBy
    <3> HIDE DEF C, R
    <3>5. Commands(v, w, kind, h)
      BY <1>7
    <3> HIDE DEF v
    <3> QED BY <3>3, <3>4, <3>5, CommandsOn
  <2> QED BY <2>1, <2>2
<1>9. Good(c)
  <2>1. CASE e.ret # Ok
    BY <1>3, <1>8, <2>1
  <2>2. CASE e.ret = Ok
    <3> DEFINE v == e.w
               l == v.st.m_localTrx
               C == {l}
    <3>1. c \in StmtClose(v)
      BY <1>3, <2>2
    <3>2. Ready(v, {}, h) /\ l \in Nat \ DOMAIN w.map
      BY <1>8, CommandsFacts
    <3>3. c.ret \in {Ok, Throw} /\ Moved(c.w, v, {}, C, {}, {}, h)
      BY <3>1, <3>2, CloseMoves
    <3>4. C \subseteq CmdCommits(w, kind) /\ {} \subseteq CmdRolls(w, kind)
      BY <3>2 DEF CmdCommits
    <3>5. Commands(v, w, kind, h)
      BY <1>8
    <3> HIDE DEF C, v
    <3> QED BY <3>3, <3>4, <3>5, CommandsOn
  <2> QED BY <2>1, <2>2
<1> DEFINE v == c.w
           l == v.st.m_localTrx
           R == {l}
<1>10. Ready(v, {}, h) /\ l \in Nat \ DOMAIN w.map /\ StreamFree({l}, v.map, v.st)
  <2>1. Commands(v, w, kind, h)
    BY <1>9
  <2> HIDE DEF v
  <2>2. Ready(v, {}, h) /\ l \in Nat \ DOMAIN w.map /\ StreamsOf(v.st) = {}
    BY <2>1, CommandsFacts
  <2>3. StreamFree({l}, v.map, v.st)
    BY <2>2, NoStreams
  <2> QED BY <2>2, <2>3
<1>11. /\ d.ret \in {Ok, Terminated} /\ Moved(d.w, v, {}, {}, R, {}, h)
       /\ d.w.st.m_localTrx = l
       /\ d.ret = Ok /\ HasLocalTrx(v.st) => d.w.map[l] = NoTrx
  <2>1. d \in StmtDestroy(v) /\ l = v.st.m_localTrx
    OBVIOUS
  <2>2. Ready(v, {}, h) /\ StreamFree(R, v.map, v.st)
    BY <1>10
  <2>3. R = {l}
    OBVIOUS
  <2> HIDE DEF v, l, R, h
  <2>4. Ready(v, {}, dbc.m_dbh) /\ StreamFree({l}, v.map, v.st)
    BY <2>2, <2>3 DEF h
  <2>5. Destroyed(d, v, {}, l, dbc.m_dbh)
    BY <2>1, <2>4, DestroyMoves
  <2> QED BY <2>3, <2>5 DEF h, Destroyed
<1>12. R \subseteq CmdRolls(w, kind) /\ {} \subseteq CmdCommits(w, kind)
  BY <1>10 DEF CmdRolls
<1>13. Commands(v, w, kind, h)
  BY <1>9
<1>14. o.w = d.w /\ o.ret \in {Ok, Throw, Terminated} /\ (o.ret # Terminated => d.ret = Ok)
  BY <1>2, <1>9, <1>11, Words
<1>15. Commands(d.w, w, kind, h)
  <2> HIDE DEF v, R
  <2> QED BY <1>11, <1>12, <1>13, CommandsOn
<1>16. ASSUME d.ret = Ok, NEW id \in DOMAIN d.w.map \ DOMAIN w.map PROVE d.w.map[id] = NoTrx
  <2> SUFFICES ASSUME d.w.map[id] # NoTrx PROVE FALSE
    OBVIOUS
  <2>1. id = l
    BY <1>11, <1>15 DEF Commands, Moved
  <2>2. HasLocalTrx(v.st)
    <3>1. Ready(d.w, {}, h)
      BY <1>15, CommandsFacts
    <3>2. id # Invalid
      BY <3>1, MapFacts DEF Ready, IsWorld, Invalid
    <3> QED BY <2>1, <3>2 DEF HasLocalTrx
  <2> QED BY <1>11, <1>16, <2>1, <2>2
<1> QED BY <1>14, <1>15, <1>16 DEF Done

-----------------------------------------------------------------------------
(* All statements of a connection                                          *)

\* What the whole says of one statement.
LEMMA WholeFacts ==
  ASSUME NEW sts, NEW m, NEW t, NEW ids, NEW h, Whole(sts, m, t, ids, h), NEW s, s \in Stmts
  PROVE  /\ sts[s] \in Statements /\ StmtFine(sts[s], m, t, h) /\ Mapped(m, t)
         /\ Invalid \notin DOMAIN m
         /\ sts[s].m_localTrx \in {Invalid} \union (DOMAIN m \ {Own})
         /\ sts[s].m_localTrx \notin ids
         /\ sts[s].m_currentTrx \in {Invalid, Own, sts[s].m_localTrx} \union ids
         /\ ids \subseteq DOMAIN m \ {Own}
         /\ NoTrx \notin StreamsOf(sts[s])
         /\ \A x \in StreamsOf(sts[s]) : x \in DOMAIN t
<1>1. /\ sts[s] \in Statements /\ StmtFine(sts[s], m, t, h) /\ Mapped(m, t)
      /\ sts[s].m_localTrx \notin ids
      /\ sts[s].m_currentTrx \in {Invalid, Own, sts[s].m_localTrx} \union ids
      /\ ids \subseteq DOMAIN m \ {Own}
  BY DEF Whole, Named
<1>2. Invalid \notin DOMAIN m
  BY <1>1, MapFacts DEF Invalid
<1>3. sts[s].m_localTrx \in {Invalid} \union (DOMAIN m \ {Own})
  BY <1>1 DEF StmtFine, LocalFine, HasLocalTrx
<1>4. NoTrx \notin StreamsOf(sts[s])
  BY <1>1, NoTrxFree
<1>5. \A x \in StreamsOf(sts[s]) : x \in DOMAIN t
  BY <1>1 DEF StmtFine, Active
<1> QED BY <1>1, <1>2, <1>3, <1>4, <1>5

\* Two statements have no local transaction in common, and neither uses that of
\* the other.
LEMMA Strangers ==
  ASSUME NEW sts, NEW m, NEW t, NEW ids, NEW h, Whole(sts, m, t, ids, h),
         NEW s, s \in Stmts, NEW r, r \in Stmts, r # s, HasLocalTrx(sts[r])
  PROVE  /\ sts[r].m_localTrx # sts[s].m_localTrx
         /\ sts[r].m_localTrx # sts[s].m_currentTrx
         /\ sts[r].m_localTrx \in DOMAIN m \ {Own}
         /\ m[sts[r].m_localTrx] \notin StreamsOf(sts[s])
<1>1. /\ sts[r].m_localTrx # sts[s].m_localTrx
      /\ m[sts[r].m_localTrx] \notin StreamsOf(sts[s])
  BY DEF Whole, Named, Apart
<1>2. sts[r].m_localTrx \in DOMAIN m \ {Own} /\ sts[r].m_localTrx \notin ids
      /\ sts[r].m_localTrx # Invalid
  BY WholeFacts DEF HasLocalTrx
<1>3. sts[s].m_currentTrx \in {Invalid, Own, sts[s].m_localTrx} \union ids
  BY WholeFacts
<1> QED BY <1>1, <1>2, <1>3

\* The statement s has moved to the world v; the others stay.
Follows(v, sts, m, t, s, ids, C, R, X, h) ==
  /\ Moved(v, World(m, t, sts[s]), ids, C, R, X, h)
  /\ \A x \in X : sts[s].m_currentTrx \in DOMAIN m /\ x = m[sts[s].m_currentTrx]
  /\ \A r \in Stmts \ {s} : StreamFree(C \union R, m, sts[r])

LEMMA FollowsFacts ==
  ASSUME NEW sts, NEW m, NEW t, NEW ids, NEW h, Whole(sts, m, t, ids, h), NEW s, s \in Stmts,
         NEW v, NEW C, NEW R, NEW X, Follows(v, sts, m, t, s, ids, C, R, X, h)
  PROVE  LET S == {Own, sts[s].m_currentTrx} \union (Nat \ DOMAIN m)
             l == sts[s].m_localTrx
             k == v.st.m_localTrx
         IN  /\ Evolves(m, t, v.map, v.trx, S, C, R)
             /\ StmtFine(v.st, v.map, v.trx, h) /\ v.st \in Statements
             /\ k \in {Invalid, l} \union (Nat \ DOMAIN m)
             /\ v.st.m_currentTrx \in {Invalid, Own, k} \union ids
             /\ k # l /\ HasLocalTrx(sts[s]) => v.map[l] = NoTrx
             /\ \A id \in DOMAIN v.map \ DOMAIN m : v.map[id] # NoTrx => id = k
             /\ StreamsOf(v.st) \subseteq StreamsOf(sts[s]) \union X
<1> DEFINE w == World(m, t, sts[s])
<1>1. w.map = m /\ w.trx = t /\ w.st = sts[s]
  BY DEF World
<1>2. Moved(v, w, ids, C, R, X, h)
  BY DEF Follows
<1> HIDE DEF w
<1>3. Spare(w) = {Own, sts[s].m_currentTrx} \union (Nat \ DOMAIN m)
  BY <1>1 DEF Spare
<1>4. /\ Evolves(m, t, v.map, v.trx, Spare(w), C, R)
      /\ StmtFine(v.st, v.map, v.trx, h)
  BY <1>1, <1>2 DEF Moved, Goes
<1>5. v.st \in Statements
  BY <1>4 DEF StmtFine
<1>6. LET l == sts[s].m_localTrx
          k == v.st.m_localTrx
      IN  /\ k \in {Invalid, l} \union (Nat \ DOMAIN m)
          /\ v.st.m_currentTrx \in {Invalid, Own, k} \union ids
          /\ k # l /\ HasLocalTrx(sts[s]) => v.map[l] = NoTrx
          /\ \A id \in DOMAIN v.map \ DOMAIN m : v.map[id] # NoTrx => id = k
          /\ StreamsOf(v.st) \subseteq StreamsOf(sts[s]) \union X
  BY <1>1, <1>2 DEF Moved
<1> QED BY <1>3, <1>4, <1>5, <1>6

LEMMA FollowsEvolves ==
  ASSUME NEW sts, NEW m, NEW t, NEW s, NEW ids, NEW h,
         NEW v, NEW C, NEW R, NEW X, Follows(v, sts, m, t, s, ids, C, R, X, h)
  PROVE  Evolves(m, t, v.map, v.trx, Spare(World(m, t, sts[s])), C, R)
<1> DEFINE w == World(m, t, sts[s])
<1>1. w.map = m /\ w.trx = t
  BY DEF World
<1>2. Moved(v, w, ids, C, R, X, h)
  BY DEF Follows
<1> HIDE DEF w
<1>3. Evolves(m, t, v.map, v.trx, Spare(w), C, R)
  BY <1>1, <1>2 DEF Moved, Goes
<1> QED BY <1>3 DEF w

\* Another statement stays as it is, and so does its local transaction.
LEMMA OthersStay ==
  ASSUME NEW sts, NEW m, NEW t, NEW ids, NEW h, Whole(sts, m, t, ids, h), NEW s, s \in Stmts,
         NEW v, NEW C, NEW R, NEW X, Follows(v, sts, m, t, s, ids, C, R, X, h),
         NEW r, r \in Stmts, r # s
  PROVE  /\ StmtFine(sts[r], v.map, v.trx, h)
         /\ HasLocalTrx(sts[r]) =>
              v.map[sts[r].m_localTrx] \in {NoTrx, m[sts[r].m_localTrx]}
<1> DEFINE S == {Own, sts[s].m_currentTrx} \union (Nat \ DOMAIN m)
           l == sts[r].m_localTrx
           n == v.map
           u == v.trx
<1>1. Evolves(m, t, n, u, S, C, R)
  BY FollowsFacts
<1>2. StmtFine(sts[r], m, t, h) /\ Mapped(m, t)
  BY WholeFacts
<1>3. StreamFree(C \union R, m, sts[r])
  BY DEF Follows
<1>4. HasLocalTrx(sts[r]) => l \notin S /\ l \in DOMAIN m
  BY Strangers
<1>5. l \notin S \ {Invalid}
  BY <1>4 DEF HasLocalTrx
<1> HIDE DEF S, n, u
<1>6. StmtFine(sts[r], n, u, h)
  BY <1>1, <1>2, <1>3, <1>5, StmtStays
<1>7. HasLocalTrx(sts[r]) => n[l] \in {NoTrx, m[l]}
  <2> HAVE HasLocalTrx(sts[r])
  <2>1. l \in DOMAIN n /\ l \in DOMAIN m /\ l \notin S
    BY <1>1, <1>4 DEF Evolves
  <2>2. n[l] # NoTrx => \/ l \in DOMAIN m /\ n[l] = m[l]
                        \/ l \in S /\ n[l] > Len(t)
    BY <1>1, <2>1 DEF Evolves
  <2> QED BY <2>1, <2>2
<1> QED BY <1>6, <1>7 DEF n, u

\* A call of a statement keeps the whole.
LEMMA StmtKeeps ==
  ASSUME NEW sts, NEW m, NEW t, NEW ids, NEW h, Whole(sts, m, t, ids, h), NEW s, s \in Stmts,
         NEW v, NEW C, NEW R, NEW X, Follows(v, sts, m, t, s, ids, C, R, X, h),
         NEW q, q = [sts EXCEPT ![s] = v.st]
  PROVE  Whole(q, v.map, v.trx, ids, h)
<1> DEFINE S == {Own, sts[s].m_currentTrx} \union (Nat \ DOMAIN m)
           l == sts[s].m_localTrx
           k == v.st.m_localTrx
           n == v.map
           u == v.trx
<1>1. /\ Evolves(m, t, n, u, S, C, R)
      /\ StmtFine(v.st, n, u, h) /\ v.st \in Statements
      /\ k \in {Invalid, l} \union (Nat \ DOMAIN m)
      /\ v.st.m_currentTrx \in {Invalid, Own, k} \union ids
      /\ k # l /\ HasLocalTrx(sts[s]) => n[l] = NoTrx
      /\ \A id \in DOMAIN n \ DOMAIN m : n[id] # NoTrx => id = k
      /\ StreamsOf(v.st) \subseteq StreamsOf(sts[s]) \union X
  BY FollowsFacts
<1>2. /\ \A x \in X : sts[s].m_currentTrx \in DOMAIN m /\ x = m[sts[s].m_currentTrx]
  BY DEF Follows
<1>3. sts \in [Stmts -> Statements] /\ Mapped(m, t) /\ Named(sts, m, ids)
  BY DEF Whole
<1>4. /\ q \in [Stmts -> Statements] /\ q[s] = v.st
      /\ \A r \in Stmts \ {s} : q[r] = sts[r]
  BY <1>1, <1>3
<1>5. Mapped(n, u) /\ DOMAIN m \subseteq DOMAIN n
  BY <1>1 DEF Evolves
<1>6. /\ Invalid \notin DOMAIN m /\ ids \subseteq DOMAIN m \ {Own}
      /\ l \in {Invalid} \union (DOMAIN m \ {Own}) /\ l \notin ids
      /\ sts[s].m_currentTrx \in {Invalid, Own, l} \union ids
  BY WholeFacts
<1>7. \A id \in DOMAIN n : n[id] # NoTrx =>
        \/ id \in DOMAIN m /\ n[id] = m[id]
        \/ id \in S /\ n[id] > Len(t)
  BY <1>1 DEF Evolves
<1> HIDE DEF S, n, u, l, k
<1>8. ASSUME NEW r \in Stmts PROVE StmtFine(q[r], n, u, h)
  <2>1. CASE r = s
    BY <1>1, <1>4, <2>1
  <2>2. CASE r # s
    <3>1. StmtFine(sts[r], v.map, v.trx, h)
      BY <2>2, OthersStay
    <3> QED BY <1>4, <2>2, <3>1 DEF n, u
  <2> QED BY <2>1, <2>2
<1>9. Named(q, n, ids)
  <2>1. ids \subseteq DOMAIN n \ {Own}
    BY <1>5, <1>6
  <2>2. k \notin ids
    BY <1>1, <1>6
  <2>3. ASSUME NEW r \in Stmts
        PROVE  /\ q[r].m_localTrx \notin ids
               /\ q[r].m_currentTrx \in {Invalid, Own, q[r].m_localTrx} \union ids
    <3>1. CASE r = s
      BY <1>1, <1>4, <2>2, <3>1 DEF k
    <3>2. CASE r # s
      BY <1>3, <1>4, <3>2 DEF Named
    <3> QED BY <3>1, <3>2
  <2>4. ASSUME NEW a \in Stmts, NEW r \in Stmts \ {a}, HasLocalTrx(q[a])
        PROVE  q[r].m_localTrx # q[a].m_localTrx
    <3>1. CASE a # s /\ r # s
      <4>1. HasLocalTrx(sts[a]) /\ q[a] = sts[a] /\ q[r] = sts[r]
        BY <1>4, <2>4, <3>1
      <4> QED BY <1>3, <4>1 DEF Named
    <3>2. CASE a = s
      <4>1. r \in Stmts /\ r # s /\ q[r] = sts[r] /\ q[a] = v.st
        BY <1>4, <3>2
      <4>2. k # Invalid
        BY <2>4, <4>1 DEF HasLocalTrx, k
      <4>3. sts[r].m_localTrx \in {Invalid} \union DOMAIN m
        BY <4>1, WholeFacts
      <4>4. CASE k = l
        <5>1. HasLocalTrx(sts[s])
          BY <4>2, <4>4 DEF HasLocalTrx, l
        <5> QED BY <1>3, <3>2, <4>1, <4>4, <5>1 DEF Named, k, l
      <4>5. CASE k \notin DOMAIN m
        BY <4>1, <4>2, <4>3, <4>5 DEF k
      <4> QED BY <1>1, <4>2, <4>4, <4>5
    <3>3. CASE a # s /\ r = s
      <4>1. HasLocalTrx(sts[a]) /\ q[a] = sts[a] /\ q[r] = v.st
        BY <1>4, <2>4, <3>3
      <4>2. /\ sts[a].m_localTrx # l
            /\ sts[a].m_localTrx \in DOMAIN m
        BY <3>3, <4>1, Strangers DEF l
      <4>3. sts[a].m_localTrx # k
        BY <1>1, <1>6, <4>2
      <4> QED BY <4>1, <4>3 DEF k
    <3> QED BY <3>1, <3>2, <3>3
  <2>5. ASSUME NEW id \in DOMAIN n, n[id] # NoTrx
        PROVE  id = Own \/ id \in ids \/ \E r \in Stmts : q[r].m_localTrx = id
    <3>1. CASE id \notin DOMAIN m
      <4>1. id = k
        BY <1>1, <2>5, <3>1
      <4> QED BY <1>4, <4>1 DEF k
    <3>2. CASE id \in DOMAIN m
      <4>1. ASSUME id = l, id \in DOMAIN m PROVE \E r \in Stmts : q[r].m_localTrx = id
        <5>1. HasLocalTrx(sts[s])
          BY <1>6, <4>1 DEF HasLocalTrx, l
        <5>2. k = l
          BY <1>1, <2>5, <4>1, <5>1
        <5> QED BY <1>4, <4>1, <5>2 DEF k
      <4>2. CASE n[id] = m[id]
        <5>1. id = Own \/ id \in ids \/ \E r \in Stmts : sts[r].m_localTrx = id
          BY <1>3, <2>5, <3>2, <4>2 DEF Named
        <5>2. ASSUME NEW r \in Stmts, sts[r].m_localTrx = id
              PROVE  \E p \in Stmts : q[p].m_localTrx = id
          <6>1. CASE r = s
            BY <3>2, <4>1, <5>2, <6>1 DEF l
          <6>2. CASE r # s
            BY <1>4, <5>2, <6>2
          <6> QED BY <6>1, <6>2
        <5> QED BY <5>1, <5>2
      <4>3. CASE id \in S
        <5>1. id = Own \/ id = l \/ id \in ids
          BY <1>6, <3>2, <4>3 DEF S
        <5> QED BY <3>2, <4>1, <5>1
      <4> QED BY <1>7, <2>5, <4>2, <4>3
    <3> QED BY <3>1, <3>2
  <2> QED BY <2>1, <2>3, <2>4, <2>5 DEF Named
<1>10. ASSUME NEW a \in Stmts, HasLocalTrx(q[a]), NEW r \in Stmts \ {a}
       PROVE  n[q[a].m_localTrx] \notin StreamsOf(q[r])
  <2> DEFINE x == n[q[a].m_localTrx]
  <2> SUFFICES ASSUME x \in StreamsOf(q[r]) PROVE FALSE
    OBVIOUS
  <2>1. x # NoTrx
    <3>1. StmtFine(q[r], n, u, h)
      BY <1>8
    <3> HIDE DEF x
    <3> QED BY <1>5, <3>1, NoTrxFree
  <2>2. CASE a = s
    <3>1. r \in Stmts /\ r # s /\ q[r] = sts[r] /\ q[a] = v.st
      BY <1>4, <2>2
    <3>2. x = n[k] /\ x \in StreamsOf(sts[r])
      BY <3>1 DEF k
    <3>3. k \in DOMAIN n
      BY <1>1, <1>10, <3>1 DEF StmtFine, LocalFine, k
    <3>4. x \in 1 .. Len(t) /\ Len(t) \in Nat
      <4>1. x \in DOMAIN t
        <5> HIDE DEF x
        <5> QED BY <3>1, <3>2, WholeFacts
      <4>2. DOMAIN t = 1 .. Len(t) /\ Len(t) \in Nat
        BY <1>3, MapFacts
      <4> QED BY <4>1, <4>2
    <3>5. ~(x > Len(t))
      BY <3>4
    <3>6. k \in DOMAIN m /\ x = m[k]
      BY <1>7, <2>1, <3>2, <3>3, <3>5
    <3>7. k = l /\ HasLocalTrx(sts[s])
      BY <1>1, <1>6, <3>6 DEF HasLocalTrx, l
    <3>8. m[sts[s].m_localTrx] \notin StreamsOf(sts[r])
      BY <3>1, <3>7, Strangers
    <3> QED BY <3>2, <3>6, <3>7, <3>8 DEF l
  <2>3. CASE a # s
    <3> DEFINE j == sts[a].m_localTrx
    <3>1. q[a] = sts[a] /\ HasLocalTrx(sts[a]) /\ x = n[j]
      BY <1>4, <1>10, <2>3
    <3>2. n[j] \in {NoTrx, m[j]}
      BY <2>3, <3>1, OthersStay DEF n
    <3>3. x = m[j]
      BY <2>1, <3>1, <3>2
    <3>4. CASE r # s
      <4>1. x \in StreamsOf(sts[r])
        BY <1>4, <3>4
      <4>2. r # a /\ m[j] \notin StreamsOf(sts[r])
        BY <3>1, Strangers
      <4> QED BY <3>3, <4>1, <4>2
    <3>5. CASE r = s
      <4>1. x \in StreamsOf(sts[s]) \union X
        BY <1>1, <1>4, <3>5
      <4>2. /\ m[j] \notin StreamsOf(sts[s]) /\ j # sts[s].m_currentTrx
            /\ j \in DOMAIN m
        BY <2>3, <3>1, Strangers
      <4>3. x \notin X
        <5>1. ASSUME x \in X PROVE FALSE
          <6>1. sts[s].m_currentTrx \in DOMAIN m /\ m[j] = m[sts[s].m_currentTrx]
            BY <1>2, <3>3, <5>1
          <6>2. m[j] # NoTrx
            BY <2>1, <3>3
          <6> QED BY <1>3, <4>2, <6>1, <6>2 DEF Mapped
        <5> QED BY <5>1
      <4> QED BY <3>3, <4>1, <4>2, <4>3
    <3> QED BY <3>4, <3>5
  <2> QED BY <2>2, <2>3
<1> QED BY <1>4, <1>5, <1>8, <1>9, <1>10 DEF Whole, Apart, n, u

\* A call of the connection keeps the whole: what it makes is the client's or
\* over, and it ends no transaction that a statement reads in.
LEMMA ConnectionKeeps ==
  ASSUME NEW sts, NEW m, NEW t, NEW ids, NEW h, Whole(sts, m, t, ids, h),
         NEW n, NEW u, NEW T, NEW C, NEW R, Evolves(m, t, n, u, T, C, R),
         T \intersect DOMAIN m \subseteq {Own},
         \A r \in Stmts : StreamFree(C \union R, m, sts[r]),
         NEW new, new \subseteq DOMAIN n \ DOMAIN m,
         \A id \in DOMAIN n \ DOMAIN m : n[id] # NoTrx => id \in new
  PROVE  Whole(sts, n, u, ids \union new, h)
<1>1. sts \in [Stmts -> Statements] /\ Mapped(m, t) /\ Named(sts, m, ids) /\ Apart(sts, m)
  BY DEF Whole
<1>2. /\ Mapped(n, u) /\ DOMAIN m \subseteq DOMAIN n
      /\ \A id \in DOMAIN n : n[id] # NoTrx =>
           \/ id \in DOMAIN m /\ n[id] = m[id]
           \/ id \in T /\ n[id] > Len(t)
  BY DEF Evolves
<1>3. /\ Own \in DOMAIN m /\ Invalid \notin DOMAIN n
  BY <1>1, <1>2, MapFacts DEF Mapped, Invalid
<1>4. ASSUME NEW r \in Stmts
      PROVE  /\ StmtFine(sts[r], n, u, h)
             /\ HasLocalTrx(sts[r]) => n[sts[r].m_localTrx] \in {NoTrx, m[sts[r].m_localTrx]}
             /\ sts[r].m_localTrx \in {Invalid} \union (DOMAIN m \ {Own})
  <2> DEFINE l == sts[r].m_localTrx
  <2>1. StmtFine(sts[r], m, t, h) /\ l \in {Invalid} \union (DOMAIN m \ {Own})
    BY WholeFacts
  <2>2. l \notin T \ {Invalid}
    BY <2>1
  <2>3. StmtFine(sts[r], n, u, h)
    BY <1>1, <2>1, <2>2, StmtStays
  <2>4. HasLocalTrx(sts[r]) => n[l] \in {NoTrx, m[l]}
    BY <1>2, <2>1, <2>2 DEF HasLocalTrx
  <2> QED BY <2>1, <2>3, <2>4
<1>5. Named(sts, n, ids \union new)
  <2>1. ids \subseteq DOMAIN m \ {Own}
    BY <1>1 DEF Named
  <2>2. (ids \union new) \subseteq DOMAIN n \ {Own}
    BY <1>2, <1>3, <2>1
  <2>3. ASSUME NEW r \in Stmts
        PROVE  /\ sts[r].m_localTrx \notin ids \union new
               /\ sts[r].m_currentTrx \in {Invalid, Own, sts[r].m_localTrx} \union (ids \union new)
               /\ \A p \in Stmts \ {r} :
                    HasLocalTrx(sts[r]) => sts[p].m_localTrx # sts[r].m_localTrx
    <3>1. sts[r].m_localTrx \notin new
      BY <1>3, <1>4
    <3> QED BY <1>1, <3>1 DEF Named
  <2>4. ASSUME NEW id \in DOMAIN n, n[id] # NoTrx
        PROVE  id = Own \/ id \in ids \union new \/ \E r \in Stmts : sts[r].m_localTrx = id
    <3>1. CASE id \notin DOMAIN m
      BY <2>4, <3>1
    <3>2. CASE id \in DOMAIN m /\ n[id] = m[id]
      BY <1>1, <2>4, <3>2 DEF Named
    <3>3. CASE id \in DOMAIN m /\ id \in T
      BY <3>3
    <3> QED BY <1>2, <2>4, <3>1, <3>2, <3>3
  <2> QED BY <2>2, <2>3, <2>4 DEF Named
<1>6. ASSUME NEW a \in Stmts, HasLocalTrx(sts[a]), NEW r \in Stmts \ {a}
      PROVE  n[sts[a].m_localTrx] \notin StreamsOf(sts[r])
  <2>1. m[sts[a].m_localTrx] \notin StreamsOf(sts[r])
    BY <1>1, <1>6 DEF Apart
  <2>2. StmtFine(sts[r], n, u, h)
    BY <1>4
  <2>3. NoTrx \notin StreamsOf(sts[r])
    BY <1>2, <2>2, NoTrxFree
  <2> QED BY <1>4, <1>6, <2>1, <2>3
<1> QED BY <1>1, <1>2, <1>4, <1>5, <1>6 DEF Whole, Apart

\* Without resultsets, or before there is an attachment, the attachment may
\* become another.
LEMMA HandleChanges ==
  ASSUME NEW st, NEW m, NEW t, NEW h, StmtFine(st, m, t, h), NEW g,
         h = NoHandle \/ st.m_resultsets = <<>>
  PROVE  StmtFine(st, m, t, g)
<1>1. ASSUME NEW i \in DOMAIN st.m_resultsets
      PROVE  ResultFine(st.m_resultsets[i], g)
  <2>1. ResultFine(st.m_resultsets[i], h)
    BY DEF StmtFine, ResultsFine
  <2>2. h = NoHandle
    BY EmptySeq
  <2> QED BY <2>1, <2>2 DEF ResultFine
<1>2. ResultsFine(st, g)
  BY <1>1 DEF StmtFine, ResultsFine
<1> QED BY <1>2 DEF StmtFine

-----------------------------------------------------------------------------
(* The calls of the client                                                 *)

\* The transactions that a step ends are in the places C and committed, or in
\* the places R and rolled back.
EndedBy(C, R) ==
  \A x \in ActiveTrx(trx) : trx'[x] # "active" =>
    \/ \E id \in C : Ends(id, x, "committed")
    \/ \E id \in R : Ends(id, x, "rolled back")

LEMMA EvolvesEnds ==
  ASSUME NEW T, NEW C, NEW R, Evolves(dbc.m_trx_map, trx, dbc'.m_trx_map, trx', T, C, R)
  PROVE  EndedBy(C, R)
<1> SUFFICES ASSUME NEW x \in ActiveTrx(trx), trx'[x] # "active"
             PROVE  \/ \E id \in C : Ends(id, x, "committed")
                    \/ \E id \in R : Ends(id, x, "rolled back")
  BY DEF EndedBy
<1> DEFINE m == dbc.m_trx_map
<1>1. x \in DOMAIN trx /\ trx[x] = "active"
  BY DEF ActiveTrx
<1>2. \/ trx'[x] = trx[x]
      \/ trx[x] = "active" /\ trx'[x] = "committed" /\ \E id \in C \intersect DOMAIN m : m[id] = x
      \/ trx[x] = "active" /\ trx'[x] = "rolled back" /\ \E id \in R \intersect DOMAIN m : m[id] = x
  BY <1>1 DEF Evolves
<1> QED BY <1>1, <1>2 DEF Ends

\* What a call of the statement s comes to.
CallFine(o, s, C, R, X) ==
  /\ GoesOn(o.ret)
  /\ Follows(o.w, stmts, dbc.m_trx_map, trx, s, mine, C, R, X, dbc.m_dbh)
  /\ ~o.w.st.alive => o.w.st.m_resultsets = <<>>

LEMMA CallKeeps ==
  ASSUME FirebirdInv, NEW s \in Stmts, stmts[s].alive, NEW outcomes, NEW C, NEW R, NEW X,
         \A o \in outcomes : CallFine(o, s, C, R, X),
         \E out \in IF dbc.alive THEN outcomes
                    ELSE Gives(World(dbc.m_trx_map, trx, stmts[s]), Undefined) :
           /\ dbc' = [dbc EXCEPT !.m_trx_map = out.w.map]
           /\ trx' = out.w.trx
           /\ stmts' = [stmts EXCEPT ![s] = out.w.st]
           /\ Answer(out.ret),
         UNCHANGED <<opened, mine>>
  PROVE  FirebirdInv' /\ EndedBy(C, R)
<1> DEFINE m == dbc.m_trx_map
           h == dbc.m_dbh
<1>1. /\ Connected(dbc) /\ opened \in Nat /\ Whole(stmts, m, trx, mine, h)
      /\ \A r \in Stmts : /\ stmts[r].alive => dbc.alive
                          /\ ~stmts[r].alive => stmts[r].m_resultsets = <<>>
  BY DEF FirebirdInv
<1>2. dbc.alive
  BY <1>1
<1>3. PICK o \in outcomes : /\ dbc' = [dbc EXCEPT !.m_trx_map = o.w.map]
                            /\ trx' = o.w.trx
                            /\ stmts' = [stmts EXCEPT ![s] = o.w.st]
                            /\ Answer(o.ret)
  BY <1>2
<1>4. /\ GoesOn(o.ret) /\ Follows(o.w, stmts, m, trx, s, mine, C, R, X, h)
      /\ ~o.w.st.alive => o.w.st.m_resultsets = <<>>
  BY DEF CallFine
<1>5. ret' \in {Ok, Terminated}
  BY <1>3, <1>4 DEF Answer
<1>6. Whole(stmts', o.w.map, trx', mine, h)
  <2> HIDE DEF m, h
  <2> QED BY <1>1, <1>3, <1>4, StmtKeeps
<1>7. /\ dbc'.m_trx_map = o.w.map /\ dbc'.m_dbh = h /\ dbc'.alive = dbc.alive /\ Connected(dbc')
  <2>1. o.w.map \in Seq(Nat)
    BY <1>6 DEF Whole, Mapped
  <2> QED BY <1>1, <1>3, <2>1 DEF Connected
<1>8. \A r \in Stmts : /\ stmts'[r].alive => dbc'.alive
                       /\ ~stmts'[r].alive => stmts'[r].m_resultsets = <<>>
  <2>1. stmts \in [Stmts -> Statements]
    BY <1>1 DEF Whole
  <2>2. /\ stmts'[s] = o.w.st
        /\ \A r \in Stmts \ {s} : stmts'[r] = stmts[r]
    BY <1>3, <2>1
  <2> QED BY <1>1, <1>2, <1>4, <1>7, <2>2
<1>9. FirebirdInv'
  <2>1. Whole(stmts', dbc'.m_trx_map, trx', mine', dbc'.m_dbh)
    BY <1>6, <1>7
  <2> QED BY <1>1, <1>5, <1>7, <1>8, <2>1 DEF FirebirdInv
<1>10. EndedBy(C, R)
  <2> DEFINE S == Spare(World(m, trx, stmts[s]))
  <2>1. Evolves(m, trx, o.w.map, o.w.trx, S, C, R)
    <3> HIDE DEF m, h
    <3> QED BY <1>4, FollowsEvolves
  <2> HIDE DEF S
  <2>2. Evolves(dbc.m_trx_map, trx, dbc'.m_trx_map, trx', S, C, R)
    BY <1>3, <1>7, <2>1
  <2> QED BY <2>2, EvolvesEnds
<1> QED BY <1>9, <1>10

\* What the step ends was to be ended.
EndsAsked == \A x \in ActiveTrx(trx) : trx'[x] # "active" => AskedFor(x)

LEMMA NothingEnds == EndedBy({}, {}) => EndsAsked
BY DEF EndedBy, EndsAsked

LEMMA CallReady ==
  ASSUME FirebirdInv, NEW s \in Stmts
  PROVE  /\ Ready(WorldOf(s), mine, dbc.m_dbh)
         /\ WorldOf(s).map = dbc.m_trx_map /\ WorldOf(s).trx = trx /\ WorldOf(s).st = stmts[s]
         /\ DOMAIN WorldOf(s) = {"map", "trx", "st"}
<1> DEFINE m == dbc.m_trx_map
           h == dbc.m_dbh
           w == WorldOf(s)
<1>1. w.map = m /\ w.trx = trx /\ w.st = stmts[s] /\ DOMAIN w = {"map", "trx", "st"}
  BY DEF WorldOf, World
<1> HIDE DEF w
<1>2. Whole(stmts, m, trx, mine, h)
  BY DEF FirebirdInv
<1> HIDE DEF m, h
<1>3. /\ StmtFine(stmts[s], m, trx, h) /\ Mapped(m, trx) /\ mine \subseteq DOMAIN m
      /\ stmts[s].m_currentTrx \in {Invalid, Own, stmts[s].m_localTrx} \union mine
  BY <1>2, WholeFacts
<1>4. Ready(w, mine, h)
  BY <1>1, <1>3 DEF Ready, IsWorld
<1> QED BY <1>1, <1>4 DEF w, m, h

LEMMA MovedFollows ==
  ASSUME NEW s \in Stmts, NEW v, NEW C, NEW R, NEW X,
         Moved(v, WorldOf(s), mine, C, R, X, dbc.m_dbh),
         \A x \in X : stmts[s].m_currentTrx \in DOMAIN dbc.m_trx_map
                        /\ x = dbc.m_trx_map[stmts[s].m_currentTrx],
         \A r \in Stmts \ {s} : StreamFree(C \union R, dbc.m_trx_map, stmts[r])
  PROVE  Follows(v, stmts, dbc.m_trx_map, trx, s, mine, C, R, X, dbc.m_dbh)
BY DEF Follows, WorldOf

\* No statement reads in the local transaction of another.
LEMMA LocalsFree ==
  ASSUME FirebirdInv, NEW s \in Stmts, NEW r \in Stmts \ {s}
  PROVE  StreamFree({stmts[s].m_localTrx}, dbc.m_trx_map, stmts[r])
<1> DEFINE m == dbc.m_trx_map
           h == dbc.m_dbh
<1>1. Whole(stmts, m, trx, mine, h)
  BY DEF FirebirdInv
<1> HIDE DEF m, h
<1>2. CASE HasLocalTrx(stmts[s])
  <2>1. r \in Stmts /\ r # s
    OBVIOUS
  <2>2. m[stmts[s].m_localTrx] \notin StreamsOf(stmts[r])
    BY <1>1, <1>2, <2>1, Strangers
  <2> QED BY <2>2 DEF StreamFree, m
<1>3. CASE ~HasLocalTrx(stmts[s])
  <2>1. stmts[s].m_localTrx \notin DOMAIN m
    BY <1>1, <1>3, WholeFacts DEF HasLocalTrx
  <2> QED BY <2>1 DEF StreamFree, m
<1> QED BY <1>2, <1>3

LEMMA UnreadFree ==
  ASSUME NEW id, Unread(id), NEW r \in Stmts
  PROVE  StreamFree({id}, dbc.m_trx_map, stmts[r])
BY DEF Unread, Reads, StreamFree, StreamsOf

LEMMA FreeOf ==
  ASSUME NEW S, NEW U, NEW V, NEW m, NEW st, StreamFree(S, m, st), StreamFree(U, m, st),
         V \subseteq S \union U
  PROVE  StreamFree(V, m, st)
BY DEF StreamFree

\* prepare() of a statement that owes no commit, on a connection that is
\* connected.
LEMMA prepareKeeps ==
  ASSUME FirebirdInv, NEW s \in Stmts, dbc.m_isConnected, ~stmts[s].owing,
         NEW sql \in Queries, prepare(s, sql) \/ \E id \in Ids : prepareIn(s, sql, id)
  PROVE  FirebirdInv' /\ EndsAsked
<1> DEFINE w == WorldOf(s)
           h == dbc.m_dbh
<1>1. /\ Ready(w, mine, h)
      /\ w.map = dbc.m_trx_map /\ w.trx = trx /\ w.st = stmts[s] /\ stmts[s].alive
  BY CallReady DEF prepare, prepareIn, StmtCall
<1>2. Connected(dbc) /\ h # NoHandle
  BY DEF FirebirdInv, Connected
<1>3. ASSUME NEW o, o.ret \in {Ok, Throw}, Moved(o.w, w, mine, {}, {}, {}, h),
             o.w.st.alive = w.st.alive
      PROVE  CallFine(o, s, {}, {}, {})
  <2>1. \A r \in Stmts \ {s} : StreamFree({} \union {}, dbc.m_trx_map, stmts[r])
    BY DEF StreamFree
  <2>2. \A x \in {} : stmts[s].m_currentTrx \in DOMAIN dbc.m_trx_map
                        /\ x = dbc.m_trx_map[stmts[s].m_currentTrx]
    OBVIOUS
  <2>3. Follows(o.w, stmts, dbc.m_trx_map, trx, s, mine, {}, {}, {}, h)
    BY <1>3, <2>1, <2>2, MovedFollows
  <2> QED BY <1>1, <1>3, <2>3, Words DEF CallFine
<1>4. CASE prepare(s, sql)
  <2>1. ASSUME NEW o \in StmtPrepare(w, sql)
        PROVE  CallFine(o, s, {}, {}, {})
    <3>1. ~w.st.owing /\ w.st.alive
      BY <1>1
    <3>2. /\ o.ret \in {Ok, Throw} /\ Moved(o.w, w, mine, {}, {}, {}, h)
          /\ o.w.st.alive = w.st.alive
      <4> HIDE DEF w
      <4> QED BY <1>1, <1>2, <2>1, <3>1, PrepareMoves
    <3> QED BY <1>3, <3>2
  <2> DEFINE outcomes == StmtPrepare(w, sql)
  <2>2. \A o \in outcomes : CallFine(o, s, {}, {}, {})
    BY <2>1
  <2>3. StmtCall(s, outcomes)
    BY <1>4 DEF prepare
  <2> HIDE DEF outcomes
  <2>4. FirebirdInv' /\ EndedBy({}, {})
    BY <1>1, <2>2, <2>3, CallKeeps DEF StmtCall
  <2> QED BY <2>4, NothingEnds
<1>5. CASE \E id \in Ids : prepareIn(s, sql, id)
  <2> PICK id \in Ids : prepareIn(s, sql, id)
    BY <1>5
  <2>1. ASSUME NEW o \in StmtPrepareIn(w, sql, id)
        PROVE  CallFine(o, s, {}, {}, {})
    <3>1. ~w.st.owing /\ id \in {Invalid, Own} \union mine
      BY <1>1 DEF Ids
    <3>2. /\ o.ret \in {Ok, Throw} /\ Moved(o.w, w, mine, {}, {}, {}, h)
          /\ o.w.st.alive = w.st.alive
      <4> HIDE DEF w
      <4> QED BY <1>1, <1>2, <2>1, <3>1, PrepareInMoves
    <3> QED BY <1>3, <3>2
  <2> DEFINE outcomes == StmtPrepareIn(w, sql, id)
  <2>2. \A o \in outcomes : CallFine(o, s, {}, {}, {})
    BY <2>1
  <2>3. StmtCall(s, outcomes)
    BY DEF prepareIn
  <2> HIDE DEF outcomes
  <2>4. FirebirdInv' /\ EndedBy({}, {})
    BY <1>1, <2>2, <2>3, CallKeeps DEF StmtCall
  <2> QED BY <2>4, NothingEnds
<1> QED BY <1>4, <1>5

\* execute() of a statement that has no stream open in its transaction.
LEMMA executeKeeps ==
  ASSUME FirebirdInv, NEW s \in Stmts, Unread(stmts[s].m_currentTrx), execute(s)
  PROVE  FirebirdInv' /\ EndsAsked
<1> DEFINE w == WorldOf(s)
           h == dbc.m_dbh
           m == dbc.m_trx_map
           l == stmts[s].m_localTrx
           c == stmts[s].m_currentTrx
           C == ExecCommits(stmts[s])
           R == ExecRolls(stmts[s])
           outcomes == StmtExecute(w)
<1>1. /\ Ready(w, mine, h) /\ w.map = m /\ w.trx = trx /\ w.st = stmts[s]
  BY CallReady
<1>2. stmts[s].alive /\ StmtCall(s, outcomes)
  BY DEF execute, StmtCall
<1>3. \A r \in Stmts \ {s} : StreamFree(C \union R, m, stmts[r])
  <2> TAKE r \in Stmts \ {s}
  <2>1. StreamFree({l}, m, stmts[r]) /\ StreamFree({c}, m, stmts[r])
    BY LocalsFree, UnreadFree
  <2>2. C \union R \subseteq {l} \union {c}
    BY DEF ExecCommits, ExecRolls
  <2> HIDE DEF C, R, l, c, m
  <2> QED BY <2>1, <2>2, FreeOf
<1>4. StreamFree({c}, m, stmts[s])
  BY UnreadFree
<1>5. ASSUME NEW o \in outcomes PROVE CallFine(o, s, C, R, {})
  <2>1. /\ o.ret \in {Ok, Throw} /\ Moved(o.w, w, mine, C, R, {}, h)
        /\ o.w.st.alive = stmts[s].alive
    <3> DEFINE cur == w.st.m_currentTrx
    <3>1. StreamFree({cur}, w.map, w.st) /\ w.st.alive
      BY <1>1, <1>2, <1>4
    <3>2. o \in StmtExecute(w)
      OBVIOUS
    <3> HIDE DEF w
    <3>3. /\ o.ret \in {Ok, Throw} /\ Moved(o.w, w, mine, ExecCommits(w.st), ExecRolls(w.st), {}, h)
          /\ o.w.st.alive = w.st.alive
      BY <1>1, <3>1, <3>2, ExecuteMoves
    <3> QED BY <1>1, <3>3
  <2>2. \A x \in {} : c \in DOMAIN m /\ x = m[c]
    OBVIOUS
  <2>3. Follows(o.w, stmts, m, trx, s, mine, C, R, {}, h)
    <3> HIDE DEF C, R
    <3> QED BY <1>3, <2>1, <2>2, MovedFollows
  <2> QED BY <1>2, <2>1, <2>3, Words DEF CallFine
<1>6. \A o \in outcomes : CallFine(o, s, C, R, {})
  BY <1>5
<1>7. FirebirdInv' /\ EndedBy(C, R)
  <2> HIDE DEF outcomes, C, R
  <2> QED BY <1>2, <1>6, CallKeeps DEF StmtCall
<1>8. EndsAsked
  <2> SUFFICES ASSUME NEW x \in ActiveTrx(trx), trx'[x] # "active" PROVE AskedFor(x)
    BY DEF EndsAsked
  <2>1. Texts(s) = TextsOf(stmts[s])
    BY DEF Texts, TextsOf
  <2>2. CASE \E id \in C : Ends(id, x, "committed")
    <3> PICK id \in C : Ends(id, x, "committed")
      BY <2>2
    <3>1. \/ id = l /\ "start" \in Texts(s)
          \/ id = c /\ "commit" \in Texts(s)
      BY <2>1 DEF ExecCommits
    <3>2. CASE id = l /\ "start" \in Texts(s)
      BY <3>2 DEF AskedFor
    <3>3. CASE id = c /\ "commit" \in Texts(s)
      <4>1. EndsByText(Texts(s), c, x)
        BY <3>3 DEF EndsByText
      <4> QED BY <4>1 DEF AskedFor
    <3> QED BY <3>1, <3>2, <3>3
  <2>3. CASE \E id \in R : Ends(id, x, "rolled back")
    <3>1. Ends(c, x, "rolled back") /\ "rollback" \in Texts(s)
      BY <2>1, <2>3 DEF ExecRolls
    <3>2. EndsByText(Texts(s), c, x)
      BY <3>1 DEF EndsByText
    <3> QED BY <3>2 DEF AskedFor
  <2> QED BY <1>7, <2>2, <2>3 DEF EndedBy
<1> QED BY <1>7, <1>8

\* close() commits the local transaction.
LEMMA closeKeeps ==
  ASSUME FirebirdInv, NEW s \in Stmts, close(s)
  PROVE  FirebirdInv' /\ EndsAsked
<1> DEFINE w == WorldOf(s)
           h == dbc.m_dbh
           m == dbc.m_trx_map
           l == stmts[s].m_localTrx
           C == {l}
           outcomes == StmtClose(w)
<1>1. /\ Ready(w, mine, h) /\ w.map = m /\ w.trx = trx /\ w.st = stmts[s]
  BY CallReady
<1>2. stmts[s].alive /\ StmtCall(s, outcomes)
  BY DEF close, StmtCall
<1>3. \A r \in Stmts \ {s} : StreamFree(C \union {}, m, stmts[r])
  <2> TAKE r \in Stmts \ {s}
  <2>1. StreamFree({l}, m, stmts[r])
    BY LocalsFree
  <2>2. C \union {} = {l}
    OBVIOUS
  <2> QED BY <2>1, <2>2
<1>4. ASSUME NEW o \in outcomes PROVE CallFine(o, s, C, {}, {})
  <2>1. /\ o.ret \in {Ok, Throw} /\ Moved(o.w, w, mine, C, {}, {}, h)
        /\ o.w.st.alive = stmts[s].alive
    <3> DEFINE k == w.st.m_localTrx
    <3>1. o \in StmtClose(w) /\ k = l
      BY <1>1
    <3> HIDE DEF w
    <3>2. /\ o.ret \in {Ok, Throw} /\ Moved(o.w, w, mine, {k}, {}, {}, h)
          /\ o.w.st.alive = w.st.alive
      BY <1>1, <3>1, CloseMoves
    <3> QED BY <1>1, <3>1, <3>2
  <2>2. \A x \in {} : stmts[s].m_currentTrx \in DOMAIN m /\ x = m[stmts[s].m_currentTrx]
    OBVIOUS
  <2>3. Follows(o.w, stmts, m, trx, s, mine, C, {}, {}, h)
    <3> HIDE DEF C
    <3> QED BY <1>3, <2>1, <2>2, MovedFollows
  <2> QED BY <1>2, <2>1, <2>3, Words DEF CallFine
<1>5. \A o \in outcomes : CallFine(o, s, C, {}, {})
  BY <1>4
<1>6. FirebirdInv' /\ EndedBy(C, {})
  <2> HIDE DEF outcomes, C
  <2> QED BY <1>2, <1>5, CallKeeps DEF StmtCall
<1>7. EndsAsked
  <2> SUFFICES ASSUME NEW x \in ActiveTrx(trx), trx'[x] # "active" PROVE AskedFor(x)
    BY DEF EndsAsked
  <2>1. Ends(l, x, "committed")
    BY <1>6 DEF EndedBy
  <2> QED BY <2>1 DEF AskedFor
<1> QED BY <1>6, <1>7

\* The destructor of a statement that has no stream open in its local
\* transaction rolls it back.
LEMMA deleteStatementKeeps ==
  ASSUME FirebirdInv, NEW s \in Stmts, Unread(stmts[s].m_localTrx), deleteStatement(s)
  PROVE  FirebirdInv' /\ EndsAsked
<1> DEFINE w == WorldOf(s)
           h == dbc.m_dbh
           m == dbc.m_trx_map
           l == stmts[s].m_localTrx
           R == {l}
           outcomes == StmtDestroy(w)
<1>1. /\ Ready(w, mine, h) /\ w.map = m /\ w.trx = trx /\ w.st = stmts[s]
  BY CallReady
<1>2. stmts[s].alive /\ StmtCall(s, outcomes)
  BY DEF deleteStatement, StmtCall
<1>3. \A r \in Stmts \ {s} : StreamFree({} \union R, m, stmts[r])
  <2> TAKE r \in Stmts \ {s}
  <2>1. StreamFree({l}, m, stmts[r])
    BY LocalsFree
  <2>2. {} \union R = {l}
    OBVIOUS
  <2> QED BY <2>1, <2>2
<1>4. ASSUME NEW o \in outcomes PROVE CallFine(o, s, {}, R, {})
  <2>1. Destroyed(o, w, mine, l, h)
    <3>1. o \in StmtDestroy(w) /\ l = w.st.m_localTrx /\ StreamFree({l}, w.map, w.st)
      BY <1>1, UnreadFree
    <3> HIDE DEF w, l
    <3> QED BY <1>1, <3>1, DestroyMoves
  <2>2. \A x \in {} : stmts[s].m_currentTrx \in DOMAIN m /\ x = m[stmts[s].m_currentTrx]
    OBVIOUS
  <2>3. Follows(o.w, stmts, m, trx, s, mine, {}, R, {}, h)
    <3>1. Moved(o.w, w, mine, {}, R, {}, h)
      BY <2>1 DEF Destroyed
    <3> HIDE DEF R
    <3> QED BY <1>3, <2>2, <3>1, MovedFollows
  <2>4. ~o.w.st.alive => o.w.st.m_resultsets = <<>>
    BY <1>1, <1>2, <2>1 DEF Destroyed
  <2> QED BY <2>1, <2>3, <2>4, Words DEF CallFine, Destroyed
<1>5. \A o \in outcomes : CallFine(o, s, {}, R, {})
  BY <1>4
<1>6. FirebirdInv' /\ EndedBy({}, R)
  <2> HIDE DEF outcomes, R
  <2> QED BY <1>2, <1>5, CallKeeps DEF StmtCall
<1>7. EndsAsked
  <2> SUFFICES ASSUME NEW x \in ActiveTrx(trx), trx'[x] # "active" PROVE AskedFor(x)
    BY DEF EndsAsked
  <2>1. Ends(l, x, "rolled back")
    BY <1>6 DEF EndedBy
  <2> QED BY <2>1 DEF AskedFor
<1> QED BY <1>6, <1>7

\* A call of the first resultset of a statement, with the outcomes rets of its
\* method.
ResultStep(s, rets) ==
  StmtCall(s, IF stmts[s].m_resultsets = <<>> THEN Gives(WorldOf(s), Throw)
              ELSE {[w |-> [WorldOf(s) EXCEPT !.st.m_resultsets[1] = r.rs], ret |-> r.ret] :
                      r \in rets})

\* The transaction a stream is opened in.
StreamTrx(s) ==
  IF Known(WorldOf(s), stmts[s].m_currentTrx) THEN dbc.m_trx_map[stmts[s].m_currentTrx] ELSE NoTrx

LEMMA FirstFine ==
  ASSUME FirebirdInv, NEW s \in Stmts, stmts[s].m_resultsets # <<>>
  PROVE  /\ 1 \in DOMAIN stmts[s].m_resultsets
         /\ ResultFine(stmts[s].m_resultsets[1], dbc.m_dbh)
         /\ BlobCloses(stmts[s].m_resultsets[1], trx)
         /\ StmtFine(stmts[s], dbc.m_trx_map, trx, dbc.m_dbh)
<1> DEFINE m == dbc.m_trx_map
           h == dbc.m_dbh
           st == stmts[s]
<1>1. Whole(stmts, m, trx, mine, h)
  BY DEF FirebirdInv
<1> HIDE DEF m, h
<1>2. StmtFine(st, m, trx, h) /\ st \in Statements
  BY <1>1, WholeFacts
<1>3. 1 \in DOMAIN st.m_resultsets
  <2>1. st.m_resultsets \in Seq(Results)
    BY <1>2, StmtFacts
  <2> QED BY <2>1
<1>4. ResultFine(st.m_resultsets[1], h)
  BY <1>2, <1>3 DEF StmtFine, ResultsFine
<1>5. BlobCloses(st.m_resultsets[1], trx)
  <2> SUFFICES ASSUME st.m_resultsets[1].blob # NoBlob
               PROVE  Active(trx, st.m_resultsets[1].blob.trx)
    BY DEF BlobCloses
  <2>1. st.m_resultsets[1].blob.trx \in StreamsOf(st)
    BY <1>3 DEF StreamsOf
  <2> QED BY <1>2, <2>1 DEF StmtFine
<1> QED BY <1>2, <1>3, <1>4, <1>5 DEF m, h

\* One outcome of the method.
LEMMA UsedCall ==
  ASSUME FirebirdInv, NEW s \in Stmts, stmts[s].alive, stmts[s].m_resultsets # <<>>,
         NEW r, Used(r, stmts[s].m_resultsets[1], dbc.m_dbh, StreamTrx(s)),
         NEW o, o = [w |-> [WorldOf(s) EXCEPT !.st.m_resultsets[1] = r.rs], ret |-> r.ret]
  PROVE  CallFine(o, s, {}, {}, {x \in {StreamTrx(s)} : x # NoTrx})
<1> DEFINE w == WorldOf(s)
           h == dbc.m_dbh
           m == dbc.m_trx_map
           st == stmts[s]
           c == st.m_currentTrx
           y == StreamTrx(s)
           X == {x \in {y} : x # NoTrx}
           q == Replaced(st, 1, r.rs)
           v == [w EXCEPT !.st = q]
<1>1. /\ Ready(w, mine, h) /\ w.map = m /\ w.trx = trx /\ w.st = st
      /\ DOMAIN w = {"map", "trx", "st"}
  BY CallReady
<1>2. /\ 1 \in DOMAIN st.m_resultsets /\ ResultFine(st.m_resultsets[1], h)
      /\ StmtFine(st, m, trx, h)
  BY FirstFine
<1>3. o.w = v /\ o.ret = r.ret
  BY <1>1 DEF Replaced
<1>4. DOMAIN v = {"map", "trx", "st"} /\ v.map = m /\ v.trx = trx /\ v.st = q
  BY <1>1
<1> HIDE DEF w, v
<1>5. y # NoTrx => c \in DOMAIN m /\ y = m[c] /\ Active(trx, y)
  <2>1. Mapped(m, trx)
    BY DEF FirebirdInv, Whole
  <2>2. y # NoTrx => c \in DOMAIN m /\ y = m[c]
    BY <1>1 DEF StreamTrx, Known, w
  <2> QED BY <2>1, <2>2 DEF Mapped
<1>6. /\ GoesOn(r.ret) /\ ResultFine(r.rs, h)
      /\ IsPrepared(r.rs) <=> IsPrepared(st.m_resultsets[1])
      /\ r.rs.blob \in {st.m_resultsets[1].blob, NoBlob} \/ (r.rs.blob.trx = y /\ y # NoTrx)
  BY DEF Used
<1> HIDE DEF y
<1>7. Replaces(q, st, 1, r.rs, y, trx, h)
  BY <1>2, <1>5, <1>6 DEF Replaces
<1> HIDE DEF q
<1>8. /\ StmtFine(q, m, trx, h)
      /\ q.alive = st.alive /\ q.m_localTrx = st.m_localTrx
      /\ q.m_currentTrx = st.m_currentTrx
      /\ StreamsOf(q) \subseteq StreamsOf(st) \union {y}
      /\ r.rs.blob \in {st.m_resultsets[1].blob, NoBlob} => StreamsOf(q) \subseteq StreamsOf(st)
  <2> DEFINE rs == r.rs
             i  == 1
  <2>1. Replaces(q, st, i, rs, y, trx, h) /\ StmtFine(st, m, trx, h)
    BY <1>2, <1>7
  <2> HIDE DEF rs, i, st, m, h
  <2>2. /\ StmtFine(q, m, trx, h)
        /\ q.alive = st.alive /\ q.m_localTrx = st.m_localTrx
        /\ q.m_currentTrx = st.m_currentTrx
        /\ StreamsOf(q) \subseteq StreamsOf(st) \union {y}
    BY <2>1, ReplacedFine
  <2>3. rs.blob \in {st.m_resultsets[i].blob, NoBlob} => StreamsOf(q) \subseteq StreamsOf(st)
    BY <2>1, ReplacedFine
  <2> QED BY <2>2, <2>3 DEF rs, i
<1>9. StreamsOf(q) \subseteq StreamsOf(st) \union X
  BY <1>6, <1>8
<1>10. Moved(v, w, mine, {}, {}, X, h)
  <2>1. st.m_currentTrx \in {Invalid, Own, st.m_localTrx} \union mine
    BY <1>1 DEF Ready
  <2> HIDE DEF X, m
  <2> QED BY <1>1, <1>4, <1>8, <1>9, <2>1, SameMoves
<1>11. \A x \in X : c \in DOMAIN m /\ x = m[c]
  BY <1>5
<1>12. \A p \in Stmts \ {s} : StreamFree({} \union {}, m, stmts[p])
  BY DEF StreamFree
<1>13. Follows(v, stmts, m, trx, s, mine, {}, {}, X, h)
  <2> HIDE DEF X
  <2> QED BY <1>10, <1>11, <1>12, MovedFollows DEF w
<1>14. o.w.st.alive
  BY <1>3, <1>4, <1>8
<1> QED BY <1>3, <1>6, <1>13, <1>14 DEF CallFine, y

LEMMA ResultKeeps ==
  ASSUME FirebirdInv, NEW s \in Stmts, NEW rets, ResultStep(s, rets),
         stmts[s].m_resultsets # <<>> =>
           \A r \in rets : Used(r, stmts[s].m_resultsets[1], dbc.m_dbh, StreamTrx(s))
  PROVE  FirebirdInv' /\ EndsAsked
<1> DEFINE X == {x \in {StreamTrx(s)} : x # NoTrx}
           outcomes == IF stmts[s].m_resultsets = <<>> THEN Gives(WorldOf(s), Throw)
                       ELSE {[w |-> [WorldOf(s) EXCEPT !.st.m_resultsets[1] = r.rs], ret |-> r.ret] :
                               r \in rets}
<1>1. StmtCall(s, outcomes)
  BY DEF ResultStep
<1>2. stmts[s].alive
  BY <1>1 DEF StmtCall
<1>3. ASSUME NEW o \in outcomes PROVE CallFine(o, s, {}, {}, X)
  <2>1. CASE stmts[s].m_resultsets = <<>>
    <3> DEFINE w == WorldOf(s)
    <3>1. o \in Gives(w, Throw)
      BY <2>1
    <3>2. Ready(w, mine, dbc.m_dbh) /\ w.st = stmts[s]
      BY CallReady
    <3> HIDE DEF w, X
    <3>3. o.w = w /\ o.ret = Throw
      BY <3>1, GivesFacts
    <3>4. Moved(w, w, mine, {}, {}, X, dbc.m_dbh)
      BY <3>2, NothingMoves
    <3>5. \A x \in X : stmts[s].m_currentTrx \in DOMAIN dbc.m_trx_map
                         /\ x = dbc.m_trx_map[stmts[s].m_currentTrx]
      BY CallReady DEF X, StreamTrx, Known
    <3>6. \A p \in Stmts \ {s} : StreamFree({} \union {}, dbc.m_trx_map, stmts[p])
      BY DEF StreamFree
    <3>7. Follows(w, stmts, dbc.m_trx_map, trx, s, mine, {}, {}, X, dbc.m_dbh)
      BY <3>4, <3>5, <3>6, MovedFollows DEF w
    <3> QED BY <1>2, <3>2, <3>3, <3>7, Words DEF CallFine
  <2>2. CASE stmts[s].m_resultsets # <<>>
    <3> PICK r \in rets : o = [w |-> [WorldOf(s) EXCEPT !.st.m_resultsets[1] = r.rs], ret |-> r.ret]
      BY <2>2
    <3>1. Used(r, stmts[s].m_resultsets[1], dbc.m_dbh, StreamTrx(s))
      BY <2>2
    <3> QED BY <1>2, <2>2, <3>1, UsedCall
  <2> QED BY <2>1, <2>2
<1>4. \A o \in outcomes : CallFine(o, s, {}, {}, X)
  BY <1>3
<1> HIDE DEF outcomes, X
<1>5. FirebirdInv' /\ EndedBy({}, {})
  BY <1>1, <1>2, <1>4, CallKeeps DEF StmtCall
<1> QED BY <1>5, NothingEnds

\* The methods of a resultset.
LEMMA resultKeeps ==
  ASSUME FirebirdInv, NEW s \in Stmts,
         \/ first(s) \/ next(s) \/ eof(s) \/ ask(s)
         \/ LiveRow(s) /\ \E num \in 1 .. Width + 1 : column(s, num) \/ getBlobStream(s, num)
         \/ HasStream(s) /\ readStream(s)
  PROVE  FirebirdInv' /\ EndsAsked
<1> DEFINE h == dbc.m_dbh
           x == StreamTrx(s)
           rs == stmts[s].m_resultsets[1]
           Any == stmts[s].m_resultsets # <<>>
<1>1. Any => ResultFine(rs, h) /\ BlobCloses(rs, trx)
  BY FirstFine
<1> HIDE DEF h, x, rs, Any
<1>2. ASSUME NEW rets, ResultStep(s, rets), Any => \A r \in rets : Used(r, rs, h, x)
      PROVE  FirebirdInv' /\ EndsAsked
  BY <1>2, ResultKeeps DEF h, x, rs, Any
<1>3. CASE first(s)
  <2>1. ResultStep(s, RsFirst(rs, trx))
    BY <1>3 DEF first, ResultCall, ResultStep, rs
  <2>2. Any => \A r \in RsFirst(rs, trx) : Used(r, rs, h, x)
    BY <1>1, FirstUsed
  <2> QED BY <1>2, <2>1, <2>2
<1>4. CASE next(s)
  <2>1. ResultStep(s, RsNext(rs, trx))
    BY <1>4 DEF next, ResultCall, ResultStep, rs
  <2>2. Any => \A r \in RsNext(rs, trx) : Used(r, rs, h, x)
    BY <1>1, NextUsed
  <2> QED BY <1>2, <2>1, <2>2
<1> DEFINE Asks(num) ==
             RsEof(rs) \union RsRowID(rs) \union RsColumnCount(rs)
               \union RsDescribeColumn(rs, num) \union RsColumnID(rs, num)
               \union RsAffectedRows(rs) \union RsParamCount(rs) \union RsLastInsertRowId(rs)
<1>5. ASSUME NEW num, NEW rets, ResultStep(s, rets), rets \subseteq Asks(num)
      PROVE  FirebirdInv' /\ EndsAsked
  <2>1. ASSUME NEW r \in rets, Any PROVE Used(r, rs, h, x)
    <3>1. r \in Asks(num)
      BY <1>5
    <3> QED BY <1>1, <2>1, <3>1, AskUsed
  <2> QED BY <1>2, <1>5, <2>1
<1>6. CASE eof(s)
  <2>1. ResultStep(s, RsEof(rs))
    BY <1>6 DEF eof, ResultCall, ResultStep, rs
  <2>2. RsEof(rs) \subseteq Asks(0)
    OBVIOUS
  <2> QED BY <1>5, <2>1, <2>2
<1>7. CASE ask(s)
  <2>1. \E num, rets : ResultStep(s, rets) /\ rets \subseteq Asks(num)
    <3>1. ASSUME NEW num \in ColumnNumbers, ResultCall(s, LAMBDA z : RsDescribeColumn(z, num))
          PROVE  \E n, rets : ResultStep(s, rets) /\ rets \subseteq Asks(n)
      <4>1. ResultStep(s, RsDescribeColumn(rs, num))
        BY <3>1 DEF ResultCall, ResultStep, rs
      <4>2. RsDescribeColumn(rs, num) \subseteq Asks(num)
        OBVIOUS
      <4> HIDE DEF Asks
      <4> QED BY <4>1, <4>2
    <3>2. ASSUME NEW num \in ColumnNumbers, ResultCall(s, LAMBDA z : RsColumnID(z, num))
          PROVE  \E n, rets : ResultStep(s, rets) /\ rets \subseteq Asks(n)
      <4>1. ResultStep(s, RsColumnID(rs, num))
        BY <3>2 DEF ResultCall, ResultStep, rs
      <4>2. RsColumnID(rs, num) \subseteq Asks(num)
        OBVIOUS
      <4> HIDE DEF Asks
      <4> QED BY <4>1, <4>2
    <3>3. ASSUME \/ ResultStep(s, RsRowID(rs)) \/ ResultStep(s, RsColumnCount(rs))
                 \/ ResultStep(s, RsAffectedRows(rs)) \/ ResultStep(s, RsParamCount(rs))
                 \/ ResultStep(s, RsLastInsertRowId(rs))
          PROVE  \E n, rets : ResultStep(s, rets) /\ rets \subseteq Asks(n)
      <4>1. /\ RsRowID(rs) \subseteq Asks(0) /\ RsColumnCount(rs) \subseteq Asks(0)
            /\ RsAffectedRows(rs) \subseteq Asks(0) /\ RsParamCount(rs) \subseteq Asks(0)
            /\ RsLastInsertRowId(rs) \subseteq Asks(0)
        OBVIOUS
      <4> HIDE DEF Asks
      <4> QED BY <3>3, <4>1
    <3>4. \/ \E num \in ColumnNumbers :
                \/ ResultCall(s, LAMBDA z : RsDescribeColumn(z, num))
                \/ ResultCall(s, LAMBDA z : RsColumnID(z, num))
          \/ \/ ResultStep(s, RsRowID(rs)) \/ ResultStep(s, RsColumnCount(rs))
             \/ ResultStep(s, RsAffectedRows(rs)) \/ ResultStep(s, RsParamCount(rs))
             \/ ResultStep(s, RsLastInsertRowId(rs))
      BY <1>7 DEF ask, ResultCall, ResultStep, rs
    <3> HIDE DEF Asks
    <3> QED BY <3>1, <3>2, <3>3, <3>4
  <2> HIDE DEF Asks
  <2> QED BY <1>5, <2>1
<1>8. CASE LiveRow(s) /\ \E num \in 1 .. Width + 1 : column(s, num) \/ getBlobStream(s, num)
  <2>1. Any /\ OnRow(rs)
    BY <1>8 DEF LiveRow, NoResults, OnRow, rs, Any
  <2> PICK num \in 1 .. Width + 1 : column(s, num) \/ getBlobStream(s, num)
    BY <1>8
  <2>2. CASE column(s, num)
    <3>1. ResultStep(s, RsColumn(rs, num))
      BY <2>2 DEF column, ResultCall, ResultStep, rs
    <3>2. \A r \in RsColumn(rs, num) : Used(r, rs, h, x)
      BY <1>1, <2>1, ColumnUsed
    <3> QED BY <1>2, <3>1, <3>2
  <2>3. CASE getBlobStream(s, num)
    <3>1. ResultStep(s, RsGetBlobStream(rs, num, x))
      BY <2>3 DEF getBlobStream, ResultCall, ResultStep, rs, x, StreamTrx
    <3>2. x \in Nat
      <4>1. Mapped(dbc.m_trx_map, trx)
        BY DEF FirebirdInv, Whole
      <4> QED BY <4>1, MapFacts, CallReady DEF x, StreamTrx, Known, NoTrx
    <3>3. \A r \in RsGetBlobStream(rs, num, x) : Used(r, rs, h, x)
      BY <1>1, <2>1, <3>2, StreamUsed
    <3> QED BY <1>2, <3>1, <3>3
  <2> QED BY <2>2, <2>3
<1>9. CASE HasStream(s) /\ readStream(s)
  <2>1. Any /\ rs.blob # NoBlob
    BY <1>9 DEF HasStream, NoResults, rs, Any
  <2>2. ResultStep(s, RsReadStream(rs, trx))
    BY <1>9 DEF readStream, ResultCall, ResultStep, rs
  <2>3. \A r \in RsReadStream(rs, trx) : Used(r, rs, h, x)
    BY <1>1, <2>1, ReadUsed
  <2> QED BY <1>2, <2>2, <2>3
<1> QED BY <1>3, <1>4, <1>6, <1>7, <1>8, <1>9

\* A call of the connection that goes on with the outcome o.
ConnectionCall(o) ==
  /\ dbc' = [dbc EXCEPT !.m_trx_map = o.w.map]
  /\ trx' = o.w.trx
  /\ Answer(o.ret)
  /\ UNCHANGED <<opened, stmts>>

\* What it does; the places new are the client's.
ConnectionFine(o, T, C, R, new) ==
  /\ GoesOn(o.ret)
  /\ Evolves(dbc.m_trx_map, trx, o.w.map, o.w.trx, T, C, R)
  /\ T \intersect DOMAIN dbc.m_trx_map \subseteq {Own}
  /\ \A r \in Stmts : StreamFree(C \union R, dbc.m_trx_map, stmts[r])
  /\ new \subseteq DOMAIN o.w.map \ DOMAIN dbc.m_trx_map
  /\ \A id \in DOMAIN o.w.map \ DOMAIN dbc.m_trx_map : o.w.map[id] # NoTrx => id \in new

LEMMA DbcKeeps ==
  ASSUME FirebirdInv, NEW o, NEW T, NEW C, NEW R, NEW new, ConnectionFine(o, T, C, R, new),
         ConnectionCall(o), mine' = mine \union new
  PROVE  FirebirdInv' /\ EndedBy(C, R)
<1> DEFINE m == dbc.m_trx_map
           h == dbc.m_dbh
           n == o.w.map
           u == o.w.trx
<1>1. /\ Connected(dbc) /\ opened \in Nat /\ Whole(stmts, m, trx, mine, h)
      /\ \A r \in Stmts : /\ stmts[r].alive => dbc.alive
                          /\ ~stmts[r].alive => stmts[r].m_resultsets = <<>>
  BY DEF FirebirdInv
<1>2. /\ dbc' = [dbc EXCEPT !.m_trx_map = n] /\ trx' = u /\ ret' \in {Ok, Terminated}
      /\ opened' = opened /\ stmts' = stmts
  BY DEF ConnectionCall, ConnectionFine, Answer
<1>3. Whole(stmts, n, u, mine \union new, h)
  <2>1. /\ Evolves(m, trx, n, u, T, C, R) /\ T \intersect DOMAIN m \subseteq {Own}
        /\ \A r \in Stmts : StreamFree(C \union R, m, stmts[r])
        /\ new \subseteq DOMAIN n \ DOMAIN m
        /\ \A id \in DOMAIN n \ DOMAIN m : n[id] # NoTrx => id \in new
    BY DEF ConnectionFine
  <2> HIDE DEF m, h, n, u
  <2> QED BY <1>1, <2>1, ConnectionKeeps
<1>4. /\ dbc'.m_trx_map = n /\ dbc'.m_dbh = h /\ dbc'.alive = dbc.alive /\ Connected(dbc')
  <2>1. n \in Seq(Nat)
    BY <1>3 DEF Whole, Mapped
  <2> HIDE DEF n
  <2> QED BY <1>1, <1>2, <2>1 DEF Connected
<1>5. Whole(stmts', dbc'.m_trx_map, trx', mine', dbc'.m_dbh)
  BY <1>2, <1>3, <1>4
<1>6. FirebirdInv'
  BY <1>1, <1>2, <1>4, <1>5 DEF FirebirdInv
<1>7. EndedBy(C, R)
  <2>1. Evolves(dbc.m_trx_map, trx, dbc'.m_trx_map, trx', T, C, R)
    BY <1>2, <1>4 DEF ConnectionFine
  <2> QED BY <2>1, EvolvesEnds
<1> QED BY <1>6, <1>7

LEMMA World0Facts ==
  ASSUME FirebirdInv
  PROVE  /\ World0.map = dbc.m_trx_map /\ World0.trx = trx /\ World0.st = NewStmt
         /\ DOMAIN World0 = {"map", "trx", "st"}
         /\ IsWorld(World0) /\ Fresh(World0, dbc.m_dbh)
         /\ Mapped(dbc.m_trx_map, trx)
<1>1. /\ World0.map = dbc.m_trx_map /\ World0.trx = trx /\ World0.st = NewStmt
      /\ DOMAIN World0 = {"map", "trx", "st"}
  BY DEF World0, World
<1>2. Mapped(dbc.m_trx_map, trx)
  BY DEF FirebirdInv, Whole
<1>3. IsWorld(World0)
  BY <1>1, <1>2 DEF IsWorld
<1>4. Fresh(World0, dbc.m_dbh)
  BY <1>1, <1>3, NewStmtFine DEF Fresh, Ready
<1> QED BY <1>1, <1>2, <1>3, <1>4

\* commit() and rollback() of a transaction in that no stream is open.
LEMMA endKeeps ==
  ASSUME FirebirdInv, NEW id \in Ids, Unread(id), commit(id) \/ rollback(id)
  PROVE  FirebirdInv' /\ EndsAsked
<1> DEFINE w == World0
           S == {id}
<1>1. /\ IsWorld(w) /\ w.map = dbc.m_trx_map /\ w.trx = trx
  BY World0Facts
<1>2. \A r \in Stmts : StreamFree(S, dbc.m_trx_map, stmts[r])
  BY UnreadFree
<1>3. mine' = mine \union {}
  BY DEF commit, rollback
<1> HIDE DEF w
<1>4. ASSUME NEW o, NEW C, NEW R, Concluded(o, w, id, C, R), C \union R = S
      PROVE  ConnectionFine(o, {}, C, R, {})
  <2>1. GoesOn(o.ret) /\ Evolves(dbc.m_trx_map, trx, o.w.map, o.w.trx, {}, C, R)
    BY <1>1, <1>4, Words DEF Concluded, Goes
  <2>2. DOMAIN o.w.map = DOMAIN dbc.m_trx_map
    BY <1>1, <1>4 DEF Concluded
  <2> HIDE DEF S
  <2> QED BY <1>2, <1>4, <2>1, <2>2 DEF ConnectionFine
<1>5. CASE commit(id)
  <2>1. PICK o \in Commit(w, id) : ConnectionCall(o)
    BY <1>5 DEF commit, DbcCall, ConnectionCall, w
  <2>2. Concluded(o, w, id, S, {})
    <3>1. id \in S
      OBVIOUS
    <3> HIDE DEF S
    <3> QED BY <1>1, <2>1, <3>1, CommitConcludes
  <2>3. ConnectionFine(o, {}, S, {}, {})
    BY <1>4, <2>2
  <2>4. FirebirdInv' /\ EndedBy(S, {})
    <3> HIDE DEF S
    <3> QED BY <1>3, <2>1, <2>3, DbcKeeps
  <2>5. EndsAsked
    <3> SUFFICES ASSUME NEW x \in ActiveTrx(trx), trx'[x] # "active" PROVE AskedFor(x)
      BY DEF EndsAsked
    <3>1. Ends(id, x, "committed")
      BY <2>4 DEF EndedBy
    <3> QED BY <1>5, <3>1 DEF AskedFor
  <2> QED BY <2>4, <2>5
<1>6. CASE rollback(id)
  <2>1. PICK o \in Rollback(w, id) : ConnectionCall(o)
    BY <1>6 DEF rollback, DbcCall, ConnectionCall, w
  <2>2. Concluded(o, w, id, {}, S)
    <3>1. id \in S
      OBVIOUS
    <3> HIDE DEF S
    <3> QED BY <1>1, <2>1, <3>1, RollbackConcludes
  <2>3. ConnectionFine(o, {}, {}, S, {})
    BY <1>4, <2>2
  <2>4. FirebirdInv' /\ EndedBy({}, S)
    <3> HIDE DEF S
    <3> QED BY <1>3, <2>1, <2>3, DbcKeeps
  <2>5. EndsAsked
    <3> SUFFICES ASSUME NEW x \in ActiveTrx(trx), trx'[x] # "active" PROVE AskedFor(x)
      BY DEF EndsAsked
    <3>1. Ends(id, x, "rolled back")
      BY <2>4 DEF EndedBy
    <3> QED BY <1>6, <3>1 DEF AskedFor
  <2> QED BY <2>4, <2>5
<1> QED BY <1>5, <1>6

\* makeTrx() and beginTrans() of a connection that is connected.
LEMMA beginKeeps ==
  ASSUME FirebirdInv, dbc.m_isConnected, makeTrx \/ beginTrans
  PROVE  FirebirdInv' /\ EndsAsked
<1> DEFINE w == World0
           m == dbc.m_trx_map
<1>1. /\ IsWorld(w) /\ w.map = m /\ w.trx = trx /\ Mapped(m, trx)
  BY World0Facts
<1>2. dbc.m_dbh # NoHandle
  BY DEF FirebirdInv, Connected
<1>3. \A r \in Stmts : StreamFree({} \union {}, m, stmts[r])
  BY DEF StreamFree
<1>4. Len(m) + 1 \notin DOMAIN m
  BY <1>1, MapFacts
<1> HIDE DEF w
<1>5. ASSUME NEW o, NEW id, NEW T, T = {id}, Begun(o, w, id), T \intersect DOMAIN m \subseteq {Own},
             NEW new, new = DOMAIN o.w.map \ DOMAIN m
      PROVE  ConnectionFine(o, T, {}, {}, new)
  <2>1. GoesOn(o.ret) /\ Evolves(m, trx, o.w.map, o.w.trx, T, {}, {})
    BY <1>1, <1>5, Words DEF Begun, Goes
  <2> QED BY <1>3, <1>5, <2>1 DEF ConnectionFine
<1>6. CASE makeTrx
  <2> DEFINE id == Len(m) + 1
             T == {id}
             new == DOMAIN dbc'.m_trx_map \ DOMAIN m
  <2>1. PICK o \in MakeTrxInternal(w, id) : ConnectionCall(o)
    BY <1>1, <1>6 DEF makeTrx, DbcCall, ConnectionCall, MakeTrx, w
  <2>2. mine' = mine \union new
    BY <1>6 DEF makeTrx
  <2>3. dbc'.m_trx_map = o.w.map
    <3>1. Connected(dbc)
      BY DEF FirebirdInv
    <3> QED BY <2>1, <3>1 DEF ConnectionCall, Connected
  <2>4. T \intersect DOMAIN m \subseteq {Own}
    BY <1>4
  <2>5. id = Len(w.map) + 1
    BY <1>1
  <2> HIDE DEF id, T
  <2>6. Begun(o, w, id)
    BY <1>1, <1>2, <2>1, <2>5, MakeTrxBegins
  <2>7. ConnectionFine(o, T, {}, {}, new)
    BY <1>5, <2>3, <2>4, <2>6 DEF T
  <2> HIDE DEF new
  <2>8. FirebirdInv' /\ EndedBy({}, {})
    BY <2>1, <2>2, <2>7, DbcKeeps
  <2> QED BY <2>8, NothingEnds
<1>7. CASE beginTrans
  <2>1. PICK o \in BeginTrans(w) : ConnectionCall(o)
    BY <1>7 DEF beginTrans, DbcCall, ConnectionCall, w
  <2>2. mine' = mine \union {}
    BY <1>7 DEF beginTrans
  <2> DEFINE T == {Own}
  <2>3. Own \in DOMAIN m
    BY <1>1 DEF Mapped
  <2>4. CASE HasActiveTrx(w)
    <3>1. o.w = w /\ o.ret = Throw
      BY <2>1, <2>4, GivesFacts DEF BeginTrans
    <3>2. Evolves(m, trx, m, trx, T, {}, {})
      <4> HIDE DEF T, m
      <4> QED BY <1>1, EvolvesSame
    <3>3. ConnectionFine(o, T, {}, {}, {})
      BY <1>1, <1>3, <3>1, <3>2, Words DEF ConnectionFine
    <3> HIDE DEF T
    <3>4. FirebirdInv' /\ EndedBy({}, {})
      BY <2>1, <2>2, <3>3, DbcKeeps
    <3> QED BY <3>4, NothingEnds
  <2>5. CASE ~HasActiveTrx(w)
    <3>1. Own \in DOMAIN w.map /\ w.map[Own] = NoTrx
      BY <1>1, <2>3, <2>5 DEF HasActiveTrx, Handle
    <3>2. o \in MakeTrxInternal(w, Own)
      BY <2>1, <2>5 DEF BeginTrans
    <3>3. Begun(o, w, Own)
      BY <1>1, <1>2, <3>1, <3>2, MakeTrxBegins
    <3>4. DOMAIN o.w.map \ DOMAIN m = {}
      BY <1>1, <2>3, <3>3 DEF Begun
    <3>5. ConnectionFine(o, T, {}, {}, {})
      BY <1>5, <3>3, <3>4
    <3> HIDE DEF T
    <3>6. FirebirdInv' /\ EndedBy({}, {})
      BY <2>1, <2>2, <3>5, DbcKeeps
    <3> QED BY <3>6, NothingEnds
  <2> QED BY <2>4, <2>5
<1> QED BY <1>6, <1>7

\* A command of the kind in a statement of its own, which may end the
\* connection's transaction only where no stream is open in it.
LEMMA CommandKeeps ==
  ASSUME FirebirdInv, NEW kind, kind \in {"commit", "rollback"} => Unread(Own),
         NEW prepared, \A p \in prepared : Starting(p, World0, kind, dbc.m_dbh),
         NEW o \in Commanded(prepared), ConnectionCall(o), mine' = mine
  PROVE  (ret' = Terminated \/ FirebirdInv') /\ EndedBy(CommitsBy(kind, Own), RollsBy(kind, Own))
<1> DEFINE w == World0
           m == dbc.m_trx_map
           h == dbc.m_dbh
           C == CmdCommits(w, kind)
           R == CmdRolls(w, kind)
           S == Spare(w)
           D == CommitsBy(kind, Own)
           Q == RollsBy(kind, Own)
<1>1. /\ Fresh(w, h) /\ w.map = m /\ w.trx = trx /\ w.st = NewStmt
  BY World0Facts
<1> HIDE DEF w
<1>2. /\ o.ret \in {Ok, Throw, Terminated} /\ Commands(o.w, w, kind, h)
      /\ o.ret # Terminated => \A id \in DOMAIN o.w.map \ DOMAIN w.map : o.w.map[id] = NoTrx
  <2>1. AllStarting(prepared, w, kind, h)
    BY DEF w, AllStarting
  <2>2. Done(o, w, kind, h)
    BY <1>1, <2>1, CommandedMoves
  <2> QED BY <2>2 DEF Done
<1>3. Evolves(m, trx, o.w.map, o.w.trx, S, C, R)
  BY <1>1, <1>2 DEF Commands, Moved, Goes
<1>4. S \intersect DOMAIN m \subseteq {Own}
  <2>1. Invalid \notin DOMAIN m
    BY World0Facts, MapFacts DEF Invalid
  <2>2. w.st.m_currentTrx = Invalid
    BY <1>1, NewStmtFine
  <2> QED BY <1>1, <2>1, <2>2 DEF Spare
<1>5. C \intersect DOMAIN m \subseteq D /\ R \intersect DOMAIN m \subseteq Q
  BY <1>1 DEF CmdCommits, CmdRolls
<1>6. ASSUME NEW r \in Stmts PROVE StreamFree(C \union R, m, stmts[r])
  <2>1. CASE kind \in {"commit", "rollback"}
    <3>1. StreamFree({Own}, m, stmts[r])
      BY <2>1, UnreadFree
    <3>2. (C \union R) \intersect DOMAIN m \subseteq {Own}
      BY <1>5 DEF CommitsBy, RollsBy
    <3> HIDE DEF C, R
    <3> QED BY <3>1, <3>2 DEF StreamFree
  <2>2. CASE kind \notin {"commit", "rollback"}
    <3>1. (C \union R) \intersect DOMAIN m = {}
      BY <1>5, <2>2 DEF CommitsBy, RollsBy
    <3> HIDE DEF C, R
    <3> QED BY <3>1 DEF StreamFree
  <2> QED BY <2>1, <2>2
<1>7. Evolves(m, trx, o.w.map, o.w.trx, S, D, Q)
  <2> HIDE DEF S, C, R, D, Q, m
  <2> QED BY <1>3, <1>5, EvolvesWithin
<1>8. D \union Q \subseteq C \union R
  BY DEF CmdCommits, CmdRolls
<1>9. ASSUME NEW r \in Stmts PROVE StreamFree(D \union Q, m, stmts[r])
  <2>1. StreamFree(C \union R, m, stmts[r])
    BY <1>6
  <2> HIDE DEF C, R, D, Q, m
  <2> QED BY <1>8, <2>1 DEF StreamFree
<1>10. CASE o.ret = Terminated
  <2> HIDE DEF S, D, Q
  <2>1. ret' = Terminated
    BY <1>10, Words DEF ConnectionCall, Answer
  <2>2. Connected(dbc) /\ o.w.map \in Seq(Nat)
    BY <1>7 DEF FirebirdInv, Evolves, Mapped
  <2>3. dbc'.m_trx_map = o.w.map /\ trx' = o.w.trx
    BY <2>2 DEF ConnectionCall, Connected
  <2>4. EndedBy(D, Q)
    BY <1>7, <2>3, EvolvesEnds DEF m
  <2> QED BY <2>1, <2>4 DEF D, Q
<1>11. CASE o.ret # Terminated
  <2> HIDE DEF S, D, Q
  <2>1. ConnectionFine(o, S, D, Q, {})
    BY <1>1, <1>2, <1>4, <1>7, <1>9, <1>11, Words DEF ConnectionFine
  <2>2. mine' = mine \union {}
    OBVIOUS
  <2> QED BY <2>1, <2>2, DbcKeeps DEF D, Q
<1> QED BY <1>10, <1>11

LEMMA NewStmtTexts == TextsOf(NewStmt) = {}
BY NewStmtFine, EmptySeq DEF TextsOf

LEMMA CommandsPrepared ==
  ASSUME FirebirdInv, dbc.m_isConnected, NEW sql \in Queries,
         NEW p \in StmtPrepareIn(World0, sql, Own) \union StmtPrepare(World0, sql)
  PROVE  Starting(p, World0, Kind[sql], dbc.m_dbh)
<1> DEFINE w == World0
           h == dbc.m_dbh
<1>1. /\ Fresh(w, h) /\ w.st = NewStmt
  BY World0Facts
<1>2. Connected(dbc) /\ h # NoHandle
  BY DEF FirebirdInv, Connected
<1> HIDE DEF w, h
<1>3. /\ Ready(w, {}, h) /\ ~w.st.owing /\ w.st.alive /\ TextsOf(w.st) = {}
  BY <1>1, NewStmtFine, NewStmtTexts DEF Fresh
<1>4. /\ p.ret \in {Ok, Throw} /\ Moved(p.w, w, {}, {}, {}, {}, h)
      /\ TextsOf(p.w.st) \subseteq TextsOf(w.st) \union {Kind[sql]} /\ p.w.st.alive = w.st.alive
  <2>1. CASE p \in StmtPrepareIn(w, sql, Own)
    <3> DEFINE id == Own
               ids == {}
    <3>1. id \in {Invalid, Own} \union ids
      OBVIOUS
    <3>2. Ready(w, ids, dbc.m_dbh) /\ p \in StmtPrepareIn(w, sql, id)
      BY <1>3, <2>1 DEF h
    <3> HIDE DEF id, ids
    <3>3. /\ p.ret \in {Ok, Throw} /\ Moved(p.w, w, ids, {}, {}, {}, dbc.m_dbh)
          /\ TextsOf(p.w.st) \subseteq TextsOf(w.st) \union {Kind[sql]} /\ p.w.st.alive = w.st.alive
      BY <1>2, <1>3, <3>1, <3>2, PrepareInMoves
    <3> QED BY <3>3 DEF h, ids
  <2>2. CASE p \in StmtPrepare(w, sql)
    BY <1>2, <1>3, <2>2, PrepareMoves DEF h
  <2> QED BY <2>1, <2>2 DEF w
<1> QED BY <1>3, <1>4 DEF Starting, w, h

\* directCmd(), and the commands of savepoints.
LEMMA commandsKeep ==
  ASSUME FirebirdInv, dbc.m_isConnected,
         \/ Unread(Own) /\ \E sql \in Queries : directCmd(sql)
         \/ \E sql \in Changes : savepoint(sql) \/ rollbackTo(sql)
  PROVE  (ret' = Terminated \/ FirebirdInv') /\ EndsAsked
<1>1. CASE Unread(Own) /\ \E sql \in Queries : directCmd(sql)
  <2> PICK sql \in Queries : directCmd(sql)
    BY <1>1
  <2> DEFINE prepared == StmtPrepare(World0, sql)
             kind == Kind[sql]
  <2>1. PICK o \in Commanded(prepared) : ConnectionCall(o)
    BY DEF directCmd, DbcCall, ConnectionCall
  <2>2. mine' = mine
    BY DEF directCmd
  <2>3. \A p \in prepared : Starting(p, World0, kind, dbc.m_dbh)
    BY CommandsPrepared
  <2> HIDE DEF prepared, kind
  <2>4. (ret' = Terminated \/ FirebirdInv') /\ EndedBy(CommitsBy(kind, Own), RollsBy(kind, Own))
    BY <1>1, <2>1, <2>2, <2>3, CommandKeeps
  <2>5. EndsAsked
    <3> SUFFICES ASSUME NEW x \in ActiveTrx(trx), trx'[x] # "active" PROVE AskedFor(x)
      BY DEF EndsAsked
    <3>1. \/ kind = "commit" /\ Ends(Own, x, "committed")
          \/ kind = "rollback" /\ Ends(Own, x, "rolled back")
      BY <2>4 DEF EndedBy, CommitsBy, RollsBy
    <3>2. EndsByText({kind}, Own, x)
      BY <3>1 DEF EndsByText
    <3> QED BY <3>2 DEF AskedFor, kind
  <2> QED BY <2>4, <2>5
<1>2. CASE \E sql \in Changes : savepoint(sql) \/ rollbackTo(sql)
  <2> PICK sql \in Changes : savepoint(sql) \/ rollbackTo(sql)
    BY <1>2
  <2>1. sql \in Queries /\ Kind[sql] = "change"
    BY DEF Changes
  <2>2. mine' = mine
    BY DEF savepoint, rollbackTo
  <2> DEFINE prepared == StmtPrepareIn(World0, sql, Own)
             kind == "change"
  <2>3. \A p \in prepared : Starting(p, World0, kind, dbc.m_dbh)
    BY <2>1, CommandsPrepared
  <2>4. CommitsBy(kind, Own) = {} /\ RollsBy(kind, Own) = {} /\ kind \notin {"commit", "rollback"}
    BY DEF CommitsBy, RollsBy
  <2>5. CASE \E o \in Commanded(prepared) : ConnectionCall(o)
    <3> PICK o \in Commanded(prepared) : ConnectionCall(o)
      BY <2>5
    <3> HIDE DEF prepared, kind
    <3>1. (ret' = Terminated \/ FirebirdInv') /\ EndedBy(CommitsBy(kind, Own), RollsBy(kind, Own))
      BY <2>2, <2>3, <2>4, CommandKeeps
    <3> QED BY <2>4, <3>1, NothingEnds
  <2>6. CASE \E o \in Gives(World0, Throw) : ConnectionCall(o)
    <3> PICK o \in Gives(World0, Throw) : ConnectionCall(o)
      BY <2>6
    <3> DEFINE m == dbc.m_trx_map
    <3>1. o.w.map = m /\ o.w.trx = trx /\ o.ret = Throw /\ Mapped(m, trx)
      BY World0Facts, GivesFacts
    <3>2. Evolves(m, trx, m, trx, {}, {}, {})
      <4> HIDE DEF m
      <4> QED BY <3>1, EvolvesSame
    <3>3. \A r \in Stmts : StreamFree({} \union {}, m, stmts[r])
      BY DEF StreamFree
    <3>4. ConnectionFine(o, {}, {}, {}, {})
      BY <3>1, <3>2, <3>3, Words DEF ConnectionFine
    <3>5. mine' = mine \union {}
      BY <2>2
    <3>6. FirebirdInv' /\ EndedBy({}, {})
      BY <3>4, <3>5, DbcKeeps
    <3> QED BY <3>6, NothingEnds
  <2>7. CASE savepoint(sql)
    BY <2>5, <2>6, <2>7 DEF savepoint, DbcCall, ConnectionCall
  <2>8. CASE rollbackTo(sql)
    BY <2>5, <2>8 DEF rollbackTo, DbcCall, ConnectionCall
  <2> QED BY <2>7, <2>8
<1> QED BY <1>1, <1>2

\* What may become another in one statement: nothing starts or ends.
LEMMA newStatementKeeps ==
  ASSUME FirebirdInv, NEW s \in Stmts, newStatement(s)
  PROVE  FirebirdInv' /\ EndsAsked
<1> DEFINE m == dbc.m_trx_map
           h == dbc.m_dbh
           w == WorldOf(s)
           v == World(m, trx, NewStmt)
<1>1. /\ dbc.alive /\ ~stmts[s].alive /\ stmts' = [stmts EXCEPT ![s] = NewStmt]
      /\ ret' = Ok /\ dbc' = dbc /\ trx' = trx /\ opened' = opened /\ mine' = mine
  BY Words DEF newStatement, Answer
<1>2. /\ Connected(dbc) /\ opened \in Nat /\ Whole(stmts, m, trx, mine, h)
      /\ \A r \in Stmts : /\ stmts[r].alive => dbc.alive
                          /\ ~stmts[r].alive => stmts[r].m_resultsets = <<>>
  BY DEF FirebirdInv
<1>3. /\ Ready(w, mine, h) /\ w.map = m /\ w.trx = trx /\ w.st = stmts[s]
  BY CallReady
<1>4. v.map = m /\ v.trx = trx /\ v.st = NewStmt /\ DOMAIN v = {"map", "trx", "st"}
  BY DEF World
<1> HIDE DEF w, v
<1>5. Moved(v, w, mine, {}, {}, {}, h)
  <2>1. Goes(w, v, Spare(w), {}, {})
    <3> DEFINE S == Spare(w)
    <3>1. IsWorld(w)
      BY <1>3 DEF Ready
    <3> HIDE DEF S
    <3> QED BY <1>3, <1>4, <3>1, GoesStmt DEF S
  <2>2. StmtFine(v.st, v.map, v.trx, h) /\ StreamsOf(v.st) = {}
    BY <1>4, NewStmtFine
  <2>3. v.st.m_localTrx = Invalid /\ v.st.m_currentTrx = Invalid
    BY <1>4, NewStmtFine
  <2>4. HasLocalTrx(w.st) => v.map[w.st.m_localTrx] = NoTrx
    BY <1>1, <1>3, <1>4 DEF Ready, StmtFine, LocalFine
  <2> QED BY <1>3, <1>4, <2>1, <2>2, <2>3, <2>4 DEF Moved
<1>6. Follows(v, stmts, m, trx, s, mine, {}, {}, {}, h)
  <2>1. \A r \in Stmts \ {s} : StreamFree({} \union {}, m, stmts[r])
    BY DEF StreamFree
  <2>2. \A x \in {} : stmts[s].m_currentTrx \in DOMAIN m /\ x = m[stmts[s].m_currentTrx]
    OBVIOUS
  <2> QED BY <1>5, <2>1, <2>2, MovedFollows DEF w
<1>7. Whole(stmts', v.map, v.trx, mine, h)
  <2>1. stmts' = [stmts EXCEPT ![s] = v.st]
    BY <1>1, <1>4
  <2> HIDE DEF m, h
  <2> QED BY <1>2, <1>6, <2>1, StmtKeeps
<1>8. \A r \in Stmts : /\ stmts'[r].alive => dbc'.alive
                       /\ ~stmts'[r].alive => stmts'[r].m_resultsets = <<>>
  <2>1. stmts \in [Stmts -> Statements]
    BY <1>2 DEF Whole
  <2> QED BY <1>1, <1>2, <2>1, NewStmtFine
<1>9. FirebirdInv'
  BY <1>1, <1>2, <1>4, <1>7, <1>8 DEF FirebirdInv
<1>10. EndsAsked
  BY <1>1 DEF EndsAsked, ActiveTrx
<1> QED BY <1>9, <1>10

\* Another attachment, before there is one or when the statements are closed.
LEMMA WholeOf ==
  ASSUME NEW sts, NEW m, NEW t, NEW ids, NEW h, Whole(sts, m, t, ids, h), NEW g,
         h = NoHandle \/ \A s \in Stmts : sts[s].m_resultsets = <<>>
  PROVE  Whole(sts, m, t, ids, g)
<1>1. ASSUME NEW s \in Stmts PROVE StmtFine(sts[s], m, t, g)
  <2>1. StmtFine(sts[s], m, t, h)
    BY DEF Whole
  <2> QED BY <2>1, HandleChanges
<1> QED BY <1>1 DEF Whole

Attached(d, g, b) == [d EXCEPT !.m_dbh = g, !.m_isConnected = b]

LEMMA AttachmentSet ==
  ASSUME NEW d, Connected(d), NEW g, NEW b, g \in Nat /\ b \in BOOLEAN /\ (b <=> g # NoHandle),
         NEW e, e = Attached(d, g, b)
  PROVE  /\ Connected(e) /\ e.m_dbh = g /\ e.m_trx_map = d.m_trx_map /\ e.alive = d.alive
<1>1. d \in [alive : BOOLEAN, m_dbh : Nat, m_isConnected : BOOLEAN, m_trx_map : Seq(Nat)]
  BY DEF Connected
<1> DEFINE a == [d EXCEPT !.m_dbh = g]
<1>2. /\ a \in [alive : BOOLEAN, m_dbh : Nat, m_isConnected : BOOLEAN, m_trx_map : Seq(Nat)]
      /\ a.m_dbh = g /\ a.m_trx_map = d.m_trx_map /\ a.alive = d.alive
  BY <1>1
<1>3. e = [a EXCEPT !.m_isConnected = b]
  BY <1>1 DEF Attached
<1> HIDE DEF a
<1>4. /\ e \in [alive : BOOLEAN, m_dbh : Nat, m_isConnected : BOOLEAN, m_trx_map : Seq(Nat)]
      /\ e.m_dbh = g /\ e.m_trx_map = d.m_trx_map /\ e.alive = d.alive
  BY <1>2, <1>3
<1>5. e.m_isConnected = b
  BY <1>2, <1>3
<1> QED BY <1>4, <1>5 DEF Connected

LEMMA connectKeeps ==
  ASSUME FirebirdInv, connect
  PROVE  FirebirdInv' /\ EndsAsked
<1>1. /\ ret' = Ok /\ trx' = trx /\ stmts' = stmts /\ mine' = mine
      /\ \/ dbc' = dbc /\ opened' = opened
         \/ /\ ~dbc.m_isConnected /\ opened' = opened + 1
            /\ dbc' = [dbc EXCEPT !.m_dbh = opened + 1, !.m_isConnected = TRUE]
  BY Words DEF connect, Answer
<1>2. /\ Connected(dbc) /\ opened \in Nat /\ Whole(stmts, dbc.m_trx_map, trx, mine, dbc.m_dbh)
  BY DEF FirebirdInv
<1>3. EndsAsked
  BY <1>1 DEF EndsAsked, ActiveTrx
<1>4. CASE dbc' = dbc /\ opened' = opened
  BY <1>1, <1>3, <1>4 DEF FirebirdInv
<1>5. CASE /\ ~dbc.m_isConnected /\ opened' = opened + 1
           /\ dbc' = [dbc EXCEPT !.m_dbh = opened + 1, !.m_isConnected = TRUE]
  <2>1. dbc.m_dbh = NoHandle
    BY <1>2, <1>5 DEF Connected
  <2>2. /\ dbc'.m_trx_map = dbc.m_trx_map /\ dbc'.alive = dbc.alive
        /\ Connected(dbc') /\ opened' \in Nat
    <3> DEFINE g == opened + 1
               b == TRUE
    <3>1. g \in Nat /\ b \in BOOLEAN /\ (b <=> g # NoHandle)
      BY <1>2 DEF NoHandle
    <3>2. dbc' = Attached(dbc, g, b) /\ opened' = g
      BY <1>5 DEF Attached
    <3> HIDE DEF g, b
    <3> QED BY <1>2, <3>1, <3>2, AttachmentSet
  <2>3. Whole(stmts, dbc.m_trx_map, trx, mine, dbc'.m_dbh)
    BY <1>2, <2>1, WholeOf
  <2>4. Whole(stmts', dbc'.m_trx_map, trx', mine', dbc'.m_dbh)
    BY <1>1, <2>2, <2>3
  <2> QED BY <1>1, <1>3, <2>2, <2>4 DEF FirebirdInv
<1> QED BY <1>1, <1>4, <1>5

LEMMA DisconnectedFacts ==
  ASSUME Connected(dbc)
  PROVE  /\ Connected(Disconnected) /\ Disconnected.m_dbh = NoHandle
         /\ Disconnected.m_trx_map = dbc.m_trx_map /\ Disconnected.alive = dbc.alive
<1> DEFINE g == NoHandle
           b == FALSE
<1>1. g \in Nat /\ b \in BOOLEAN /\ (b <=> g # NoHandle)
  BY DEF NoHandle
<1>2. Disconnected = Attached(dbc, g, b)
  BY DEF Disconnected, Attached
<1>3. g = NoHandle
  OBVIOUS
<1> HIDE DEF g, b
<1> QED BY <1>1, <1>2, <1>3, AttachmentSet

\* disconnect() when the statements are closed.
LEMMA disconnectKeeps ==
  ASSUME FirebirdInv, \A s \in Stmts : NoResults(s), disconnect
  PROVE  FirebirdInv' /\ EndsAsked
<1>1. /\ ret' = Ok /\ trx' = trx /\ opened' = opened /\ stmts' = stmts /\ mine' = mine
      /\ dbc' = dbc \/ dbc' = Disconnected
  BY Words DEF disconnect, Answer, Release
<1>2. /\ Connected(dbc) /\ opened \in Nat /\ Whole(stmts, dbc.m_trx_map, trx, mine, dbc.m_dbh)
  BY DEF FirebirdInv
<1>3. EndsAsked
  BY <1>1 DEF EndsAsked, ActiveTrx
<1>4. /\ dbc'.m_trx_map = dbc.m_trx_map /\ dbc'.alive = dbc.alive
      /\ Connected(dbc')
  <2>1. CASE dbc' = dbc
    BY <1>2, <2>1
  <2>2. CASE dbc' = Disconnected
    BY <1>2, <2>2, DisconnectedFacts
  <2> QED BY <1>1, <2>1, <2>2
<1>5. Whole(stmts, dbc.m_trx_map, trx, mine, dbc'.m_dbh)
  BY <1>2, WholeOf DEF NoResults
<1>6. Whole(stmts', dbc'.m_trx_map, trx', mine', dbc'.m_dbh)
  BY <1>1, <1>4, <1>5
<1> QED BY <1>1, <1>2, <1>3, <1>4, <1>6 DEF FirebirdInv

\* The transactions after the destructor of the connection has rolled back
\* those in its map.
Held(m, x) == \E id \in DOMAIN m : m[id] = x

RolledBackAll(m, t) == [x \in DOMAIN t |-> IF t[x] = "active" /\ Held(m, x) THEN "rolled back" ELSE t[x]]

LEMMA RollingAllBack ==
  ASSUME NEW m, NEW t, Mapped(m, t),
         NEW n, n = [id \in DOMAIN m |-> NoTrx], NEW u, u = RolledBackAll(m, t)
  PROVE  Evolves(m, t, n, u, {}, {}, Nat) /\ ActiveTrx(u) = {} /\ DOMAIN n = DOMAIN m
<1>1. /\ DOMAIN m = 1 .. Len(m) /\ Len(m) \in Nat \ {0}
      /\ DOMAIN t = 1 .. Len(t) /\ Len(t) \in Nat /\ t \in Seq(TrxStates) /\ Own \in DOMAIN m
      /\ \A x \in ActiveTrx(t) : Held(m, x)
  BY MapFacts DEF Mapped, Held
<1>2. n \in Seq(Nat) /\ DOMAIN n = DOMAIN m /\ \A id \in DOMAIN m : n[id] = NoTrx
  BY <1>1 DEF NoTrx
<1>3. /\ DOMAIN u = DOMAIN t
      /\ \A x \in DOMAIN t :
           /\ Held(m, x) /\ t[x] = "active" => u[x] = "rolled back"
           /\ ~Held(m, x) \/ t[x] # "active" => u[x] = t[x]
  BY DEF RolledBackAll
<1>4. ASSUME NEW x \in DOMAIN t
      PROVE  /\ u[x] \in TrxStates /\ u[x] # "active"
             /\ u[x] = t[x] \/ (t[x] = "active" /\ u[x] = "rolled back" /\ Held(m, x))
  <2>1. t[x] = "active" => Held(m, x)
    BY <1>1 DEF ActiveTrx
  <2>2. t[x] \in TrxStates
    BY <1>1
  <2>3. CASE t[x] = "active"
    BY <1>3, <2>1, <2>3 DEF TrxStates
  <2>4. CASE t[x] # "active"
    BY <1>3, <2>2, <2>4
  <2> QED BY <2>3, <2>4
<1>5. u \in Seq(TrxStates) /\ Len(u) = Len(t)
  <2>1. u = [x \in 1 .. Len(t) |-> u[x]]
    BY <1>1 DEF RolledBackAll
  <2>2. u \in [1 .. Len(t) -> TrxStates]
    BY <1>1, <1>4, <2>1
  <2> QED BY <1>1, <2>2
<1>6. ActiveTrx(u) = {}
  BY <1>3, <1>4 DEF ActiveTrx
<1>7. Mapped(n, u)
  BY <1>1, <1>2, <1>5, <1>6 DEF Mapped
<1>8. ASSUME NEW x \in DOMAIN t
      PROVE  u[x] = t[x] \/ (t[x] = "active" /\ u[x] = "rolled back"
                               /\ \E id \in Nat \intersect DOMAIN m : m[id] = x)
  <2>1. Held(m, x) => \E id \in Nat \intersect DOMAIN m : m[id] = x
    BY <1>1 DEF Held
  <2> QED BY <1>4, <2>1
<1>9. \A id \in DOMAIN m : ~Active(u, m[id])
  BY <1>6 DEF Active, ActiveTrx
<1>10. Len(t) <= Len(u)
  BY <1>1, <1>5
<1> QED BY <1>2, <1>6, <1>7, <1>8, <1>9, <1>10 DEF Evolves

\* The destructor of the connection when the statements are deleted.
LEMMA deleteConnectionKeeps ==
  ASSUME FirebirdInv, \A s \in Stmts : ~stmts[s].alive, deleteConnection, ret' # Terminated
  PROVE  FirebirdInv'
<1> DEFINE m == dbc.m_trx_map
           n == [id \in DOMAIN m |-> NoTrx]
           u == RolledBackAll(m, trx)
           h == dbc.m_dbh
<1>1. /\ trx' = u
      /\ dbc' = [Disconnected EXCEPT !.alive = FALSE, !.m_trx_map = n]
      /\ Answer(IF dbc.m_dbh # NoHandle /\ ActiveTrx(trx') # {} THEN Abort ELSE Ok)
      /\ opened' = opened /\ stmts' = stmts /\ mine' = mine
  <2>1. ~Answer(Terminated)
    BY Words DEF Answer
  <2>2. /\ trx' = TrxWithout(DOMAIN m)
        /\ dbc' = [Disconnected EXCEPT !.alive = FALSE, !.m_trx_map = MapWithout(DOMAIN @)]
        /\ Answer(IF dbc.m_dbh # NoHandle /\ ActiveTrx(trx') # {} THEN Abort ELSE Ok)
        /\ opened' = opened /\ stmts' = stmts /\ mine' = mine
    BY <2>1 DEF deleteConnection
  <2>3. TrxWithout(DOMAIN m) = u /\ MapWithout(DOMAIN m) = n
    BY DEF TrxWithout, MapWithout, RolledBackAll, Held
  <2>4. Disconnected.m_trx_map = m
    BY DisconnectedFacts DEF FirebirdInv
  <2> HIDE DEF m, n, u
  <2> QED BY <2>2, <2>3, <2>4
<1>2. /\ Connected(dbc) /\ opened \in Nat /\ Whole(stmts, m, trx, mine, h) /\ Mapped(m, trx)
      /\ \A s \in Stmts : stmts[s].m_resultsets = <<>>
  BY DEF FirebirdInv, Whole
<1>3. /\ Evolves(m, trx, n, u, {}, {}, Nat) /\ ActiveTrx(u) = {} /\ DOMAIN n = DOMAIN m
  BY <1>2, RollingAllBack
<1>4. ret' = Ok
  BY <1>1, <1>3, Words DEF Answer
<1>5. /\ Connected(dbc') /\ dbc'.m_dbh = NoHandle /\ dbc'.m_trx_map = n
  <2>1. /\ Connected(Disconnected) /\ Disconnected.m_dbh = NoHandle /\ Disconnected.m_trx_map = m
    BY <1>2, DisconnectedFacts
  <2> DEFINE a == [Disconnected EXCEPT !.alive = FALSE]
  <2>2. /\ a \in [alive : BOOLEAN, m_dbh : Nat, m_isConnected : BOOLEAN, m_trx_map : Seq(Nat)]
        /\ a.m_dbh = NoHandle /\ a.m_trx_map = m
    BY <2>1 DEF Connected
  <2>3. a.m_isConnected = Disconnected.m_isConnected
    BY <2>1 DEF Connected
  <2>4. dbc' = [a EXCEPT !.m_trx_map = n]
    BY <1>1, <2>1 DEF Connected
  <2>5. n \in Seq(Nat)
    BY <1>3 DEF Evolves, Mapped
  <2> HIDE DEF a, n
  <2>6. /\ dbc' \in [alive : BOOLEAN, m_dbh : Nat, m_isConnected : BOOLEAN, m_trx_map : Seq(Nat)]
        /\ dbc'.m_dbh = NoHandle /\ dbc'.m_trx_map = n
    BY <2>2, <2>4, <2>5
  <2>7. dbc'.m_isConnected = Disconnected.m_isConnected
    BY <2>2, <2>3, <2>4
  <2> QED BY <2>1, <2>6, <2>7 DEF Connected
<1>6. Whole(stmts, n, u, mine, h)
  <2>1. \A r \in Stmts : StreamFree({} \union Nat, m, stmts[r])
    BY <1>2, EmptySeq DEF StreamFree, StreamsOf
  <2>2. \A id \in DOMAIN n \ DOMAIN m : n[id] # NoTrx => id \in {}
    BY <1>3
  <2> DEFINE new == {}
             T == {}
  <2>3. new \subseteq DOMAIN n \ DOMAIN m /\ T \intersect DOMAIN m \subseteq {Own}
    OBVIOUS
  <2> HIDE DEF m, n, u, h
  <2>4. Whole(stmts, n, u, mine \union new, h)
    BY <1>2, <1>3, <2>1, <2>2, <2>3, ConnectionKeeps
  <2> QED BY <2>4
<1>7. Whole(stmts, n, u, mine, NoHandle)
  <2> HIDE DEF n, u, h
  <2> QED BY <1>2, <1>6, WholeOf
<1>8. Whole(stmts', dbc'.m_trx_map, trx', mine', dbc'.m_dbh)
  BY <1>1, <1>5, <1>7
<1>9. FirebirdInv'
  BY <1>1, <1>2, <1>4, <1>5, <1>8 DEF FirebirdInv
<1> QED BY <1>9

\* It rolls back, also when it does not come to its end.
LEMMA deleteConnectionEnds ==
  ASSUME deleteConnection
  PROVE  EndsAsked
<1> SUFFICES ASSUME NEW x \in ActiveTrx(trx), trx'[x] # "active" PROVE AskedFor(x)
  BY DEF EndsAsked
<1>1. PICK ids : trx' = TrxWithout(ids)
  BY DEF deleteConnection
<1>2. trx'[x] = "rolled back"
  BY <1>1 DEF TrxWithout, ActiveTrx
<1> QED BY <1>2 DEF AskedFor

-----------------------------------------------------------------------------
(* The protocol keeps the invariant                                        *)

LEMMA FirebirdInit == Init => FirebirdInv
<1> SUFFICES ASSUME Init PROVE FirebirdInv
  OBVIOUS
<1> DEFINE dead == [NewStmt EXCEPT !.alive = FALSE]
           m == <<NoTrx>>
           t == <<>>
<1>1. /\ dbc = [alive |-> TRUE, m_dbh |-> NoHandle, m_isConnected |-> FALSE, m_trx_map |-> m]
      /\ trx = t /\ opened = 0 /\ stmts = [s \in Stmts |-> dead] /\ mine = {} /\ ret = Ok
  BY DEF Init
<1>2. m \in Seq(Nat) /\ DOMAIN m = {1} /\ m[1] = NoTrx
  BY DEF NoTrx
<1>3. Mapped(m, t)
  <2>1. ActiveTrx(t) = {} /\ t \in Seq(TrxStates)
    BY DEF ActiveTrx
  <2> QED BY <1>2, <2>1 DEF Mapped, Own
<1>4. /\ dead \in Statements /\ dead.m_resultsets = <<>> /\ dead.m_localTrx = Invalid
      /\ dead.m_currentTrx = Invalid /\ dead.m_cursorstate = NewStmt.m_cursorstate
  BY NewStmtFine DEF Statements
<1>5. dead.alive = FALSE
  BY NewStmtFine DEF Statements
<1> HIDE DEF dead, m, t
<1>6. "BAD" \notin dead.m_cursorstate
  BY <1>4, NewStmtFine DEF StmtFine
<1>7. LocalFine(dead, m)
  BY <1>4 DEF LocalFine, HasLocalTrx
<1>8. StmtFine(dead, m, t, NoHandle)
  BY <1>4, <1>6, <1>7, EmptyFine
<1>9. Whole(stmts, m, t, {}, NoHandle)
  <2>1. Named(stmts, m, {}) /\ Apart(stmts, m)
    BY <1>1, <1>2, <1>4 DEF Named, Apart, HasLocalTrx
  <2> QED BY <1>1, <1>3, <1>4, <1>8, <2>1 DEF Whole
<1>10. Connected(dbc) /\ opened \in Nat /\ dbc.m_trx_map = m /\ dbc.m_dbh = NoHandle
  <2>1. NoHandle \in Nat
    BY DEF NoHandle
  <2> QED BY <1>1, <1>2, <2>1 DEF Connected
<1>11. Whole(stmts, dbc.m_trx_map, trx, mine, dbc.m_dbh)
  BY <1>1, <1>9, <1>10
<1>12. \A s \in Stmts : stmts[s].alive = FALSE /\ stmts[s].m_resultsets = <<>>
  BY <1>1, <1>4, <1>5
<1> QED BY <1>1, <1>10, <1>11, <1>12 DEF FirebirdInv

\* What a destructor that could not roll back leaves is not looked at any more.
SystemInv == ret = Terminated \/ FirebirdInv

\* Each operation asks whether the program still runs.
LEMMA OnlyRunning == Protocol => Running
<1>1. connect => Running
  BY DEF connect, Answer
<1>2. ASSUME NEW id PROVE commit(id) \/ rollback(id) => Running
  BY DEF commit, rollback, DbcCall, Answer
<1>3. disconnect \/ deleteConnection => Running
  BY DEF disconnect, deleteConnection, Answer
<1>4. makeTrx \/ beginTrans => Running
  BY DEF makeTrx, beginTrans, DbcCall, Answer
<1>5. ASSUME NEW sql PROVE directCmd(sql) \/ savepoint(sql) \/ rollbackTo(sql) => Running
  BY DEF directCmd, savepoint, rollbackTo, DbcCall, Answer
<1>6. ASSUME NEW s PROVE newStatement(s) \/ close(s) \/ execute(s) \/ deleteStatement(s) => Running
  BY DEF newStatement, close, execute, deleteStatement, StmtCall, Answer
<1>7. ASSUME NEW s, NEW sql, NEW id PROVE prepare(s, sql) \/ prepareIn(s, sql, id) => Running
  BY DEF prepare, prepareIn, StmtCall, Answer
<1>8. ASSUME NEW s PROVE first(s) \/ next(s) \/ eof(s) \/ readStream(s) => Running
  BY DEF first, next, eof, readStream, ResultCall, StmtCall, Answer
<1>9. ASSUME NEW s PROVE ask(s) => Running
  BY DEF ask, ResultCall, StmtCall, Answer
<1>10. ASSUME NEW s, NEW num PROVE column(s, num) \/ getBlobStream(s, num) => Running
  BY DEF column, getBlobStream, ResultCall, StmtCall, Answer
<1> QED BY <1>1, <1>2, <1>3, <1>4, <1>5, <1>6, <1>7, <1>8, <1>9, <1>10 DEF Protocol

LEMMA ProtocolStep == SystemInv /\ [Protocol]_vars => SystemInv' /\ (EndsAsked \/ UNCHANGED vars)
<1> SUFFICES ASSUME SystemInv, [Protocol]_vars
             PROVE  (ret' = Terminated \/ FirebirdInv') /\ (EndsAsked \/ UNCHANGED vars)
  BY DEF SystemInv
<1>1. CASE UNCHANGED vars
  BY <1>1 DEF vars, SystemInv, FirebirdInv
<1>a. CASE Protocol /\ ret = Terminated
  BY <1>a, OnlyRunning DEF Running
<1> SUFFICES ASSUME FirebirdInv, Protocol PROVE (ret' = Terminated \/ FirebirdInv') /\ EndsAsked
  BY <1>1, <1>a DEF SystemInv
<1>2. CASE connect
  BY <1>2, connectKeeps
<1>3. CASE \E id \in Ids : Unread(id) /\ (commit(id) \/ rollback(id))
  BY <1>3, endKeeps
<1>4. CASE (\A s \in Stmts : NoResults(s)) /\ disconnect
  BY <1>4, disconnectKeeps
<1>5. CASE (\A s \in Stmts : ~stmts[s].alive) /\ deleteConnection
  BY <1>5, deleteConnectionKeeps, deleteConnectionEnds
<1>6. CASE dbc.m_isConnected /\ (makeTrx \/ beginTrans)
  BY <1>6, beginKeeps
<1>7. CASE dbc.m_isConnected /\ \/ Unread(Own) /\ \E sql \in Queries : directCmd(sql)
                                \/ \E sql \in Changes : savepoint(sql) \/ rollbackTo(sql)
  BY <1>7, commandsKeep
<1>8. ASSUME NEW s \in Stmts,
             \/ newStatement(s) \/ close(s)
             \/ Unread(stmts[s].m_currentTrx) /\ execute(s)
             \/ Unread(stmts[s].m_localTrx) /\ deleteStatement(s)
             \/ /\ dbc.m_isConnected /\ ~stmts[s].owing
                /\ \E sql \in Queries : prepare(s, sql) \/ \E id \in Ids : prepareIn(s, sql, id)
      PROVE  FirebirdInv' /\ EndsAsked
  BY <1>8, newStatementKeeps, closeKeeps, executeKeeps, deleteStatementKeeps, prepareKeeps
<1>9. ASSUME NEW s \in Stmts,
             \/ first(s) \/ next(s) \/ eof(s) \/ ask(s)
             \/ LiveRow(s) /\ \E num \in 1 .. Width + 1 : column(s, num) \/ getBlobStream(s, num)
             \/ HasStream(s) /\ readStream(s)
      PROVE  FirebirdInv' /\ EndsAsked
  BY <1>9, resultKeeps
<1> QED BY <1>2, <1>3, <1>4, <1>5, <1>6, <1>7, <1>8, <1>9 DEF Protocol

\* The invariant holds of a client that keeps the protocol: it joins what the
\* map of the connection, the server's transactions, the statements' local
\* transactions, their streams and their cursors say of one another.
THEOREM TransactionsInductive == ProtocolSpec => []SystemInv
<1>1. Init => SystemInv
  BY FirebirdInit DEF SystemInv
<1> QED BY <1>1, ProtocolStep, PTL DEF ProtocolSpec

LEMMA OwnedByInv == SystemInv => TransactionsOwned
<1> SUFFICES ASSUME FirebirdInv PROVE TransactionsOwned
  BY DEF SystemInv, TransactionsOwned, Running
<1> DEFINE m == dbc.m_trx_map
<1>1. Whole(stmts, m, trx, mine, dbc.m_dbh) /\ Mapped(m, trx) /\ Named(stmts, m, mine)
  BY DEF FirebirdInv, Whole
<1>2. ASSUME NEW id \in DOMAIN m, m[id] # NoTrx
      PROVE  Active(trx, m[id]) /\ Owned(id)
  <2>1. Active(trx, m[id])
    BY <1>1, <1>2 DEF Mapped
  <2>2. id = Own \/ id \in mine \/ \E s \in Stmts : stmts[s].m_localTrx = id
    BY <1>1, <1>2 DEF Named
  <2>3. ASSUME NEW s \in Stmts, stmts[s].m_localTrx = id PROVE Owned(id)
    <3>1. StmtFine(stmts[s], m, trx, dbc.m_dbh) /\ Invalid \notin DOMAIN m
      BY <1>1, MapFacts DEF Whole, Invalid
    <3>2. HasLocalTrx(stmts[s])
      BY <2>3, <3>1 DEF HasLocalTrx
    <3>3. stmts[s].alive /\ (~NoResults(s) \/ stmts[s].owing)
      BY <1>2, <2>3, <3>1, <3>2 DEF StmtFine, LocalFine, NoResults
    <3>4. \A r \in Stmts \ {s} : stmts[r].m_localTrx # id
      BY <1>1, <2>3, <3>2 DEF Named
    <3> QED BY <2>3, <3>3, <3>4 DEF Owned
  <2> QED BY <2>1, <2>2, <2>3 DEF Owned
<1>3. ASSUME NEW t \in ActiveTrx(trx)
      PROVE  Cardinality({id \in DOMAIN m : m[id] = t}) = 1
  <2>1. PICK i \in DOMAIN m : m[i] = t
    BY <1>1 DEF Mapped
  <2>2. t # NoTrx
    BY <1>1, MapFacts DEF ActiveTrx, NoTrx
  <2>3. {id \in DOMAIN m : m[id] = t} = {i}
    BY <1>1, <2>1, <2>2 DEF Mapped
  <2> QED BY <2>3, FS_Singleton
<1> QED BY <1>2, <1>3 DEF TransactionsOwned

LEMMA RowsByInv == SystemInv => RowsInStep
<1> SUFFICES ASSUME FirebirdInv, NEW s \in Stmts, NEW i \in DOMAIN stmts[s].m_resultsets,
                    Positioned(stmts[s].m_resultsets[i]), ~IsBad(stmts[s].m_resultsets[i])
             PROVE  LET rs == stmts[s].m_resultsets[i]
                    IN  IF IsEof(rs) THEN rs.at = Behind
                        ELSE /\ rs.at = rs.buf /\ rs.at = rs.m_current_tuple
                             /\ rs.blob # NoBlob => rs.blob.at = rs.at
  BY DEF SystemInv, RowsInStep, Running
<1> DEFINE rs == stmts[s].m_resultsets[i]
<1>1. ResultFine(rs, dbc.m_dbh)
  BY DEF FirebirdInv, Whole, StmtFine, ResultsFine
<1> HIDE DEF rs
<1>2. Positioned(rs) /\ ~IsBad(rs)
  BY DEF rs
<1>3. InStep(rs)
  BY <1>1, <1>2 DEF ResultFine, Prefixed
<1> QED BY <1>2, <1>3 DEF InStep, rs

\* No transaction is lost or shared, whatever the client prepares, executes,
\* commits, closes and deletes within the protocol.
THEOREM TransactionsAreOwned == ProtocolSpec => []TransactionsOwned
BY TransactionsInductive, OwnedByInv, PTL

LEMMA DefinedByInv == SystemInv => Defined
BY Words DEF SystemInv, FirebirdInv, Defined, Running

\* No call of the protocol uses a deleted connection, statement or stream, fails
\* in an assert, or throws out of a destructor, but for what the server refuses to roll
\* back there.
THEOREM ConnectionDefined == ProtocolSpec => []Defined
BY TransactionsInductive, DefinedByInv, PTL

\* On a row the fetched variables, the row number and an open stream are those
\* of the row the server's cursor is at.
THEOREM RowsStayInStep == ProtocolSpec => []RowsInStep
BY TransactionsInductive, RowsByInv, PTL

LEMMA EndsByStep ==
  SystemInv /\ [Protocol]_vars =>
    [\A t \in ActiveTrx(trx) : trx'[t] # "active" => AskedFor(t)]_vars
BY ProtocolStep DEF EndsAsked

\* A transaction is ended by nobody but its owner, and as he asked: every step
\* that ends one is a close(), a destructor, a text or a call that says so.
THEOREM TransactionsEndAsAsked == ProtocolSpec => EndsAsAsked
BY TransactionsInductive, EndsByStep, PTL DEF ProtocolSpec, EndsAsAsked
=============================================================================
