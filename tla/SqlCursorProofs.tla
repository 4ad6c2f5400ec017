-------------------------- MODULE SqlCursorProofs --------------------------
(***************************************************************************)
(* A client's loop over a SqlCursor reads the rows of the product of the   *)
(* sources that meet the condition, all of them, each once and in order,   *)
(* for any number of sources of any size and any condition.                *)
(*                                                                         *)
(* The sources are at a place, the numbers of their rows.  internalNext()  *)
(* goes to the place that comes next in the order of nested loops, so what *)
(* was visited are the matching rows before the place.                     *)
(***************************************************************************)
EXTENDS SqlCursor, FiniteSetTheorems, SequenceTheorems, NaturalsInduction, TLAPS

Providers ==
  [table : [rows : Nat, faulty : BOOLEAN], m_handle : BOOLEAN, at : Nat, failed : BOOLEAN,
   m_current_tuple : Nat, m_last_row_status : {"SUCCESS", "DONE", "ERROR"}, m_isopen : BOOLEAN]

\* A provider that was opened for a table: it has a handle unless the driver failed.
Opened(p, table) ==
  /\ p \in Providers /\ p.table = table /\ p.m_isopen
  /\ p.at <= table.rows
  /\ ~p.failed => p.m_handle

OnRow(p) == p.m_handle /\ p.m_last_row_status = "SUCCESS" /\ p.at \in Rows(p.table)

\* On its first row, if it has one.
AtFirst(p) == p.table.rows > 0 => OnRow(p) /\ p.at = 1

Cursors(q) ==
  [m_cursorstate : SUBSET CursorFlags, m_objects_vector : {<<>>, q.tables},
   provs : Seq(Providers), m_where_node : {NoCondition, q.where}, m_user_params : BOOLEAN]

SomeFailed(cur) == \E i \in DOMAIN cur.provs : cur.provs[i].failed

\* A cursor of query q whose sources are open.
Running(cur, q) ==
  /\ cur \in Cursors(q) /\ cur.m_where_node = q.where
  /\ Len(cur.provs) = Len(q.tables)
  /\ \A i \in DOMAIN q.tables : Opened(cur.provs[i], q.tables[i])

Place(cur) == [i \in DOMAIN cur.provs |-> cur.provs[i].at]
Ended(cur) == "EOF" \in cur.m_cursorstate
OnRows(cur, q) == \A i \in DOMAIN q.tables : OnRow(cur.provs[i])

\* A source that was opened and not moved.
Untouched(p, table) ==
  Opened(p, table) /\ p.m_current_tuple = 1 /\ (~p.failed => AtFirst(p))

\* The whole rows of a sequence come in order, before the place a, or not after it.
Ordered(s) ==
  \A i, j \in DOMAIN s : i < j /\ Whole(s[i]) /\ Whole(s[j]) => Before(s[i], s[j])
Precede(s, a) == \A i \in DOMAIN s : Whole(s[i]) => Before(s[i], a)
Reach(s, a)   == \A i \in DOMAIN s : Whole(s[i]) => Before(s[i], a) \/ s[i] = a

\* The calls that are made on a resultset.
Working == {"execute", "first", "match", "next", "eof", "body"}

TypeInv ==
  /\ query \in Queries
  /\ pc \in Working \union {"prepare", "close", "failed"}
  /\ tableFailed \in BOOLEAN
  /\ visited \in Seq([DOMAIN query.tables -> Nat])

\* The sources are open, and what the driver failed on is remembered.
RunningInv ==
  pc \in Working =>
    /\ Running(rs, query)
    /\ SomeFailed(rs) => tableFailed
    /\ pc # "execute" => rs.m_user_params /\ IsOpen(rs)

StartInv ==
  /\ pc = "prepare" => visited = <<>> /\ ~tableFailed
  /\ pc \in {"execute", "first"} =>
       visited = <<>> /\ \A i \in DOMAIN query.tables : Untouched(rs.provs[i], query.tables[i])

\* The cursor is where a row may be read.
Standing == pc \in {"match", "body"} \/ (pc = "eof" /\ ~Ended(rs))

OrderInv ==
  /\ Ordered(visited)
  /\ Standing => Precede(visited, Place(rs))
  /\ pc = "next" => Reach(visited, Place(rs))

\* While no driver failed and no source is empty, what was visited is what
\* matches before the place.
Clean == ~EmptySource /\ ~tableFailed

ProgressInv ==
  Clean =>
    /\ Standing \/ pc = "next" => ~Ended(rs) /\ OnRows(rs, query)
    /\ Standing => Range(visited) = {row \in Matching : Before(row, Place(rs))}
    /\ Standing /\ pc # "match" => Holds(Place(rs))
    /\ pc = "next" => Range(visited) = {row \in Matching : ~Before(Place(rs), row)}
    /\ pc \in {"close", "failed"} \/ (pc = "eof" /\ Ended(rs)) => Range(visited) = Matching
    /\ pc = "failed" => query.where # NoCondition /\ query.where.param /\ query.params = Null

CursorInv == TypeInv /\ RunningInv /\ StartInv /\ OrderInv /\ ProgressInv

-----------------------------------------------------------------------------
(* Outcomes, masks, least numbers                                          *)

LEMMA Told ==
  /\ Ok # Yes /\ Ok # No /\ Ok # Throw /\ Ok # Undefined
  /\ Yes # No /\ Yes # Throw /\ Yes # Undefined
  /\ No # Throw /\ No # Undefined /\ Throw # Undefined
  /\ GoesOn(Ok) /\ GoesOn(Yes) /\ GoesOn(No) /\ ~GoesOn(Undefined)
BY DEF GoesOn, Ok, Yes, No, Throw, Abort, Undefined

LEMMA Masks ==
  /\ Mask("PREPARED") = {"PREPARED"}
  /\ Mask("OPEN") = {"PREPARED", "OPEN"}
  /\ Mask("POSITIONED") = {"PREPARED", "OPEN", "POSITIONED"}
  /\ Mask("EOF") = {"PREPARED", "OPEN", "POSITIONED", "EOF"}
<1>1. ASSUME NEW i \in 1 .. 4
      PROVE  Mask(Ranked[i]) = {Ranked[j] : j \in 1 .. i}
  <2>1. \A r \in 1 .. 4 : Ranked[r] = Ranked[i] => r = i
    BY DEF Ranked
  <2> QED BY <2>1 DEF Mask
<1>2. /\ Ranked[1] = "PREPARED" /\ Ranked[2] = "OPEN" /\ Ranked[3] = "POSITIONED"
      /\ Ranked[4] = "EOF"
  BY DEF Ranked
<1>3. Mask("PREPARED") = {"PREPARED"}
  BY <1>1, <1>2, 1 .. 1 = {1}
<1>4. Mask("OPEN") = {"PREPARED", "OPEN"}
  BY <1>1, <1>2, 1 .. 2 = {1, 2}
<1>5. Mask("POSITIONED") = {"PREPARED", "OPEN", "POSITIONED"}
  BY <1>1, <1>2, 1 .. 3 = {1, 2, 3}
<1>6. Mask("EOF") = {"PREPARED", "OPEN", "POSITIONED", "EOF"}
  BY <1>1, <1>2, 1 .. 4 = {1, 2, 3, 4}
<1> QED BY <1>3, <1>4, <1>5, <1>6

\* Induction over the natural numbers, without a predicate as a parameter.
LEMMA LeastMember ==
  ASSUME NEW T, T \subseteq Nat, T # {}
  PROVE  \E x \in T : \A y \in T : x <= y
<1> DEFINE R == {ss \in Nat \X Nat : ss[1] < ss[2]}
<1>1. IsWellFoundedOn(R, Nat)
  BY NatLessThanWellFounded DEF OpToRel
<1> HIDE DEF R
<1>2. PICK x \in T : \A y \in T : ~(<<y, x>> \in R)
  BY <1>1, WFMin
<1>3. ASSUME NEW y \in T PROVE x <= y
  <2>1. y < x => <<y, x>> \in R
    BY DEF R
  <2> QED BY <1>2, <2>1
<1> QED BY <1>2, <1>3

-----------------------------------------------------------------------------
(* The order of nested loops                                               *)

Vectors(n) == [1 .. n -> Nat]

LEMMA BeforeTransitive ==
  ASSUME NEW n \in Nat, NEW a \in Vectors(n), NEW b \in Vectors(n), NEW c \in Vectors(n),
         Before(a, b), Before(b, c)
  PROVE  Before(a, c)
<1>1. PICK i \in 1 .. n : a[i] < b[i] /\ \A j \in 1 .. i - 1 : a[j] = b[j]
  BY DEF Before, Vectors
<1>2. PICK k \in 1 .. n : b[k] < c[k] /\ \A j \in 1 .. k - 1 : b[j] = c[j]
  BY DEF Before, Vectors
<1>3. \A j \in 1 .. n : a[j] \in Nat /\ b[j] \in Nat /\ c[j] \in Nat
  BY DEF Vectors
<1>4. CASE i <= k
  <2>1. a[i] < c[i]
    BY <1>1, <1>2, <1>3, <1>4
  <2>2. \A j \in 1 .. i - 1 : a[j] = c[j]
    BY <1>1, <1>2, <1>4
  <2> QED BY <2>1, <2>2 DEF Before, Vectors
<1>5. CASE k < i
  <2>1. a[k] < c[k]
    BY <1>1, <1>2, <1>3, <1>5
  <2>2. \A j \in 1 .. k - 1 : a[j] = c[j]
    BY <1>1, <1>2, <1>5
  <2> QED BY <2>1, <2>2 DEF Before, Vectors
<1> QED BY <1>4, <1>5

LEMMA BeforeIrreflexive ==
  ASSUME NEW n \in Nat, NEW a \in Vectors(n)
  PROVE  ~Before(a, a)
BY DEF Before, Vectors

LEMMA BeforeTotal ==
  ASSUME NEW n \in Nat, NEW a \in Vectors(n), NEW b \in Vectors(n)
  PROVE  a = b \/ Before(a, b) \/ Before(b, a)
<1> DEFINE T == {i \in 1 .. n : a[i] # b[i]}
<1>1. SUFFICES ASSUME a # b PROVE Before(a, b) \/ Before(b, a)
  OBVIOUS
<1>2. T \subseteq Nat /\ T # {}
  BY <1>1 DEF Vectors
<1>3. PICK i \in T : \A j \in T : i <= j
  BY <1>2, LeastMember
<1>4. i \in 1 .. n /\ a[i] # b[i] /\ a[i] \in Nat /\ b[i] \in Nat
  BY DEF Vectors
<1>5. \A j \in 1 .. i - 1 : j \in 1 .. n /\ ~(i <= j)
  BY <1>4
<1>6. \A j \in 1 .. i - 1 : a[j] = b[j]
  BY <1>3, <1>5
<1>7. a[i] < b[i] \/ b[i] < a[i]
  BY <1>4
<1> QED BY <1>4, <1>6, <1>7 DEF Before, Vectors

\* b follows a: source p moved on, those after it were at their ends and start over.
Follows(b, a, size, p, n) ==
  /\ \A i \in 1 .. n : i < p => b[i] = a[i]
  /\ b[p] = a[p] + 1
  /\ \A i \in 1 .. n : p < i => b[i] = 1 /\ size[i] <= a[i]

LEMMA MovedOn ==
  ASSUME NEW n \in Nat, NEW a \in Vectors(n), NEW b \in Vectors(n), NEW p \in 1 .. n,
         \A i \in 1 .. n : i < p => b[i] = a[i], b[p] = a[p] + 1
  PROVE  Before(a, b)
<1>1. a[p] < b[p]
  BY DEF Vectors
<1>2. \A j \in 1 .. p - 1 : a[j] = b[j]
  OBVIOUS
<1> QED BY <1>1, <1>2 DEF Before, Vectors

\* Nothing lies between them.
LEMMA Successor ==
  ASSUME NEW n \in Nat, NEW a \in Vectors(n), NEW b \in Vectors(n), NEW size \in Vectors(n),
         NEW p \in 1 .. n, Follows(b, a, size, p, n),
         NEW row \in Vectors(n), \A i \in 1 .. n : row[i] \in 1 .. size[i]
  PROVE  Before(row, b) <=> ~Before(a, row)
<1>1. Before(a, b)
  BY MovedOn DEF Follows
<1>2. ASSUME ~Before(a, row) PROVE Before(row, b)
  <2>1. row = a \/ Before(row, a)
    BY <1>2, BeforeTotal
  <2> QED BY <1>1, <2>1, BeforeTransitive
<1>3. ASSUME Before(row, b), Before(a, row) PROVE FALSE
  <2>1. PICK j \in 1 .. n : row[j] < b[j] /\ \A i \in 1 .. j - 1 : row[i] = b[i]
    BY <1>3 DEF Before, Vectors
  <2>2. PICK k \in 1 .. n : a[k] < row[k] /\ \A i \in 1 .. k - 1 : a[i] = row[i]
    BY <1>3 DEF Before, Vectors
  <2>3. \A i \in 1 .. n : a[i] \in Nat /\ b[i] \in Nat /\ row[i] \in Nat /\ size[i] \in Nat
    BY DEF Vectors
  <2>4. j <= p
    <3>1. ~(row[j] < 1)
      BY <2>3
    <3> QED BY <2>1, <3>1 DEF Follows
  <2>5. \A i \in 1 .. j - 1 : a[i] = row[i]
    BY <2>1, <2>4 DEF Follows
  <2>6. j <= k
    <3>1. k \in 1 .. j - 1 => a[k] = row[k]
      BY <2>5
    <3> QED BY <2>2, <2>3, <3>1
  <2>7. row[j] <= a[j]
    <3>1. j < p => b[j] = a[j]
      BY DEF Follows
    <3>2. j = p => b[j] = a[j] + 1
      BY DEF Follows
    <3> QED BY <2>1, <2>3, <2>4, <3>1, <3>2
  <2>8. j # k
    BY <2>2, <2>3, <2>7
  <2>9. j \in 1 .. k - 1
    BY <2>6, <2>8
  <2>10. a[j] = row[j]
    BY <2>2, <2>9
  <2>11. j = p
    <3>1. j < p => b[j] = a[j]
      BY DEF Follows
    <3> QED BY <2>1, <2>3, <2>4, <2>10, <3>1
  <2>12. size[k] <= a[k]
    BY <2>9, <2>11 DEF Follows
  <2>13. row[k] <= size[k]
    BY <2>3
  <2> QED BY <2>2, <2>3, <2>12, <2>13
<1> QED BY <1>2, <1>3

\* A sequence of different members of a finite set that lacks one has room for it.
LEMMA Room ==
  ASSUME NEW S, IsFiniteSet(S), NEW s \in Seq(S), NEW x \in S,
         \A i \in DOMAIN s : s[i] # x,
         \A i, j \in DOMAIN s : i < j => s[i] # s[j]
  PROVE  Len(s) < Cardinality(S)
<1>1. Len(s) \in Nat /\ DOMAIN s = 1 .. Len(s) /\ s \in [1 .. Len(s) -> S]
  OBVIOUS
<1>2. s \in [1 .. Len(s) -> S \ {x}]
  BY <1>1
<1>3. ASSUME NEW i \in 1 .. Len(s), NEW j \in 1 .. Len(s), s[i] = s[j] PROVE i = j
  <2>1. i < j \/ j < i \/ i = j
    BY <1>1
  <2> QED BY <1>1, <1>3, <2>1
<1>4. s \in Injection(1 .. Len(s), S \ {x})
  BY <1>2, <1>3 DEF Injection, IsInjective
<1>5. IsFiniteSet(S \ {x}) /\ Cardinality(S \ {x}) = Cardinality(S) - 1
  BY FS_RemoveElement
<1>6. Cardinality(1 .. Len(s)) <= Cardinality(S \ {x})
  BY <1>4, <1>5, FS_Injection
<1>7. Cardinality(1 .. Len(s)) = Len(s)
  <2>1. Cardinality(1 .. Len(s)) = IF 1 > Len(s) THEN 0 ELSE Len(s) - 1 + 1
    BY <1>1, FS_Interval
  <2> QED BY <1>1, <2>1
<1>8. Cardinality(S) \in Nat
  BY FS_CardinalityType
<1> QED BY <1>1, <1>5, <1>6, <1>7, <1>8

-----------------------------------------------------------------------------
(* The providers                                                           *)

\* A fetch goes to the next row, finds none, or fails.
LEMMA Fetching ==
  ASSUME NEW p \in Providers, NEW f \in Fetched(p)
  PROVE  /\ f \in Providers /\ f.table = p.table /\ f.m_isopen = p.m_isopen
         /\ f.m_handle = p.m_handle /\ f.m_current_tuple = p.m_current_tuple
         /\ p.failed => f.failed
         /\ \/ /\ f.m_last_row_status = "SUCCESS" /\ p.at < p.table.rows /\ f.at = p.at + 1
               /\ f.failed = p.failed
            \/ /\ f.m_last_row_status = "DONE" /\ p.table.rows <= p.at /\ f.at = p.at
               /\ f.failed = p.failed
            \/ f.m_last_row_status = "ERROR" /\ f.at = p.at /\ f.failed
<1>1. p.at \in Nat /\ p.table.rows \in Nat
  BY DEF Providers
<1>2. \/ p.at < p.table.rows /\ f = [p EXCEPT !.at = p.at + 1, !.m_last_row_status = "SUCCESS"]
      \/ ~(p.at < p.table.rows) /\ f = [p EXCEPT !.m_last_row_status = "DONE"]
      \/ f = [p EXCEPT !.m_last_row_status = "ERROR", !.failed = TRUE]
  BY DEF Fetched
<1>3. CASE p.at < p.table.rows /\ f = [p EXCEPT !.at = p.at + 1, !.m_last_row_status = "SUCCESS"]
  <2>1. p.at + 1 \in Nat
    BY <1>1
  <2>2. f \in Providers
    BY <1>3, <2>1 DEF Providers
  <2>3. /\ f.table = p.table /\ f.m_current_tuple = p.m_current_tuple
        /\ f.at = p.at + 1 /\ f.m_last_row_status = "SUCCESS"
    BY <1>3 DEF Providers
  <2>4. f.m_isopen = p.m_isopen /\ f.m_handle = p.m_handle /\ f.failed = p.failed
    BY <1>3 DEF Providers
  <2> QED BY <1>3, <2>2, <2>3, <2>4
<1>4. CASE ~(p.at < p.table.rows) /\ f = [p EXCEPT !.m_last_row_status = "DONE"]
  BY <1>1, <1>4 DEF Providers
<1>5. CASE f = [p EXCEPT !.m_last_row_status = "ERROR", !.failed = TRUE]
  BY <1>1, <1>5 DEF Providers
<1> QED BY <1>2, <1>3, <1>4, <1>5

\* open() of a provider that is closed or was never open.
LEMMA Opening ==
  ASSUME NEW p \in Providers, NEW q \in ProvOpen(p)
  PROVE  /\ q.prov \in Providers /\ q.prov.table = p.table
         /\ p.failed => q.prov.failed
         /\ q.prov.at <= p.at \/ q.prov.at <= p.table.rows
         /\ \/ /\ q.ret = Ok /\ q.prov.m_isopen /\ q.prov.m_handle /\ q.prov.m_current_tuple = 1
               /\ q.prov.at <= p.table.rows
               /\ ~q.prov.failed => AtFirst(q.prov)
            \/ /\ q.ret = Throw /\ q.prov.failed /\ q.prov.at = p.at
               /\ q.prov.m_isopen = p.m_isopen
<1> DEFINE closed == IF p.m_isopen THEN ProvClose(p) ELSE p
           opened == [closed EXCEPT !.m_handle = TRUE, !.at = 0, !.m_isopen = TRUE]
<1>1. /\ closed \in Providers /\ closed.table = p.table /\ closed.failed = p.failed
      /\ closed.at = p.at /\ closed.m_isopen = p.m_isopen
  BY DEF ProvClose, Providers
<1> HIDE DEF closed
<1>2. /\ opened \in Providers /\ opened.table = p.table /\ opened.failed = p.failed
      /\ opened.at = 0 /\ opened.m_isopen /\ opened.m_handle
  BY <1>1 DEF Providers
<1>3. p.table.rows \in Nat /\ p.at \in Nat
  BY DEF Providers
<1>4. \/ \E f \in Fetched(opened) : q = ProvOutcome([f EXCEPT !.m_current_tuple = 1], Ok)
      \/ q = ProvOutcome([closed EXCEPT !.failed = TRUE], Throw)
  BY DEF ProvOpen, closed
<1> HIDE DEF opened
<1>5. CASE \E f \in Fetched(opened) : q = ProvOutcome([f EXCEPT !.m_current_tuple = 1], Ok)
  <2>1. PICK f \in Fetched(opened) : q = ProvOutcome([f EXCEPT !.m_current_tuple = 1], Ok)
    BY <1>5
  <2>2. /\ f \in Providers /\ f.table = p.table /\ f.m_isopen /\ f.m_handle
        /\ p.failed => f.failed
        /\ \/ /\ f.m_last_row_status = "SUCCESS" /\ 0 < p.table.rows /\ f.at = 0 + 1
           \/ f.m_last_row_status = "DONE" /\ p.table.rows <= 0 /\ f.at = 0
           \/ f.m_last_row_status = "ERROR" /\ f.at = 0 /\ f.failed
    BY <1>2, Fetching
  <2>3. /\ q.ret = Ok /\ q.prov = [f EXCEPT !.m_current_tuple = 1]
    BY <2>1 DEF ProvOutcome
  <2>4. /\ q.prov \in Providers /\ q.prov.table = f.table /\ q.prov.m_isopen = f.m_isopen
        /\ q.prov.m_handle = f.m_handle /\ q.prov.m_current_tuple = 1 /\ q.prov.at = f.at
        /\ q.prov.failed = f.failed /\ q.prov.m_last_row_status = f.m_last_row_status
    <3>1. q.prov \in Providers
      BY <2>2, <2>3 DEF Providers
    <3>2. /\ q.prov.table = f.table /\ q.prov.m_current_tuple = 1 /\ q.prov.at = f.at
          /\ q.prov.m_last_row_status = f.m_last_row_status
      BY <2>2, <2>3 DEF Providers
    <3>3. /\ q.prov.m_isopen = f.m_isopen /\ q.prov.m_handle = f.m_handle
          /\ q.prov.failed = f.failed
      BY <2>2, <2>3 DEF Providers
    <3> QED BY <3>1, <3>2, <3>3
  <2>5. q.prov.at <= p.table.rows
    BY <1>3, <2>2, <2>4
  <2>6. ~q.prov.failed => AtFirst(q.prov)
    BY <1>3, <2>2, <2>4 DEF AtFirst, OnRow, Rows
  <2> QED BY <2>2, <2>3, <2>4, <2>5, <2>6
<1>6. CASE q = ProvOutcome([closed EXCEPT !.failed = TRUE], Throw)
  <2>1. q.ret = Throw /\ q.prov = [closed EXCEPT !.failed = TRUE]
    BY <1>6 DEF ProvOutcome
  <2>2. /\ q.prov \in Providers /\ q.prov.table = closed.table /\ q.prov.failed
        /\ q.prov.at = closed.at /\ q.prov.m_isopen = closed.m_isopen
    BY <1>1, <2>1 DEF Providers
  <2>3. q.prov.at <= p.at
    BY <1>1, <1>3, <2>2
  <2> QED BY <1>1, <2>1, <2>2, <2>3
<1> QED BY <1>4, <1>5, <1>6

\* next() of an open provider.
LEMMA Nexting ==
  ASSUME NEW t \in [rows : Nat, faulty : BOOLEAN], NEW p, Opened(p, t), NEW q \in ProvNext(p)
  PROVE  /\ Opened(q.prov, t) /\ (p.failed => q.prov.failed)
         /\ \/ /\ q.ret = Yes /\ q.prov.at = p.at + 1
               /\ ~q.prov.failed => OnRow(q.prov)
            \/ q.ret = No /\ (~q.prov.failed => t.rows <= p.at)
            \/ q.ret = Undefined /\ q.prov.failed
<1>1. p \in Providers /\ p.m_isopen /\ p.table = t /\ p.at \in Nat /\ t.rows \in Nat
  BY DEF Opened, Providers
<1>2. CASE ~p.m_handle
  <2>1. q = ProvOutcome(p, Undefined)
    BY <1>1, <1>2 DEF ProvNext
  <2> QED BY <1>2, <2>1 DEF ProvOutcome, Opened
<1>3. CASE p.m_handle
  <2>1. PICK f \in Fetched(p) :
          q = IF ProvEof(f) THEN ProvOutcome(f, No)
              ELSE ProvOutcome([f EXCEPT !.m_current_tuple = @ + 1], Yes)
    BY <1>1, <1>3 DEF ProvNext
  <2>2. /\ f \in Providers /\ f.table = t /\ f.m_isopen /\ f.m_handle
        /\ p.failed => f.failed
        /\ \/ /\ f.m_last_row_status = "SUCCESS" /\ p.at < t.rows /\ f.at = p.at + 1
           \/ f.m_last_row_status = "DONE" /\ t.rows <= p.at /\ f.at = p.at
           \/ f.m_last_row_status = "ERROR" /\ f.at = p.at /\ f.failed
    BY <1>1, <1>3, Fetching
  <2>3. CASE f.m_last_row_status = "SUCCESS"
    <3>1. q.ret = Yes /\ q.prov = [f EXCEPT !.m_current_tuple = @ + 1]
      BY <2>1, <2>3 DEF ProvOutcome, ProvEof
    <3>2. /\ q.prov \in Providers /\ q.prov.table = f.table /\ q.prov.m_isopen = f.m_isopen
          /\ q.prov.m_handle = f.m_handle /\ q.prov.at = f.at
          /\ q.prov.failed = f.failed /\ q.prov.m_last_row_status = f.m_last_row_status
      <4>1. f.m_current_tuple + 1 \in Nat
        BY <2>2 DEF Providers
      <4>2. q.prov = [f EXCEPT !.m_current_tuple = f.m_current_tuple + 1]
        BY <3>1
      <4>3. q.prov \in Providers
        BY <2>2, <4>1, <4>2 DEF Providers
      <4>4. /\ q.prov.table = f.table /\ q.prov.at = f.at
            /\ q.prov.m_last_row_status = f.m_last_row_status
        BY <2>2, <4>2 DEF Providers
      <4>5. /\ q.prov.m_isopen = f.m_isopen /\ q.prov.m_handle = f.m_handle
            /\ q.prov.failed = f.failed
        BY <2>2, <4>2 DEF Providers
      <4> QED BY <4>3, <4>4, <4>5
    <3>3. p.at < t.rows /\ f.at = p.at + 1
      BY <2>2, <2>3
    <3>4. q.prov.at <= t.rows
      BY <1>1, <3>2, <3>3
    <3>5. OnRow(q.prov)
      BY <1>1, <2>2, <2>3, <3>2, <3>3 DEF OnRow, Rows
    <3> QED BY <2>2, <3>1, <3>2, <3>3, <3>4, <3>5 DEF Opened
  <2>4. CASE f.m_last_row_status # "SUCCESS"
    <3>1. q.ret = No /\ q.prov = f
      BY <2>1, <2>4 DEF ProvOutcome, ProvEof
    <3>2. f.at = p.at /\ (~f.failed => t.rows <= p.at)
      BY <2>2, <2>4
    <3> QED BY <2>2, <3>1, <3>2 DEF Opened
  <2> QED BY <2>3, <2>4
<1> QED BY <1>2, <1>3

-----------------------------------------------------------------------------
(* internalNext()                                                          *)

LEMMA QueryFacts ==
  ASSUME NEW q \in Queries
  PROVE  /\ Len(q.tables) \in Nat \ {0} /\ DOMAIN q.tables = 1 .. Len(q.tables)
         /\ \A i \in DOMAIN q.tables :
              q.tables[i] \in [rows : Nat, faulty : BOOLEAN] /\ q.tables[i].rows \in Nat
<1>1. q.tables \in Seq([rows : Nat, faulty : BOOLEAN]) /\ q.tables # <<>>
  BY QueriesAssumption
<1> DEFINE T == q.tables
           R == [rows : Nat, faulty : BOOLEAN]
<1>2. T \in Seq(R) /\ T # <<>>
  BY <1>1
<1>3. \A t \in R : t.rows \in Nat
  OBVIOUS
<1> HIDE DEF T, R
<1>4. Len(T) \in Nat /\ DOMAIN T = 1 .. Len(T) /\ Len(T) # 0 /\ \A i \in DOMAIN T : T[i] \in R
  BY <1>2
<1> QED BY <1>3, <1>4 DEF T, R

LEMMA RunningFacts ==
  ASSUME NEW q \in Queries, NEW cur, Running(cur, q)
  PROVE  /\ DOMAIN cur.provs = DOMAIN q.tables /\ cur.provs \in Seq(Providers)
         /\ \A i \in DOMAIN q.tables :
              cur.provs[i] \in Providers /\ cur.provs[i].table = q.tables[i] /\ cur.provs[i].at \in Nat
         /\ Place(cur) \in Vectors(Len(q.tables))
         /\ \A i \in DOMAIN q.tables : Place(cur)[i] = cur.provs[i].at
<1>1. cur.provs \in Seq(Providers) /\ Len(cur.provs) = Len(q.tables)
  BY DEF Running, Cursors
<1>2. DOMAIN cur.provs = 1 .. Len(q.tables) /\ DOMAIN q.tables = 1 .. Len(q.tables)
  BY <1>1, QueryFacts
<1>3. \A i \in DOMAIN q.tables :
        cur.provs[i] \in Providers /\ cur.provs[i].table = q.tables[i] /\ cur.provs[i].at \in Nat
  BY DEF Running, Opened, Providers
<1> QED BY <1>1, <1>2, <1>3 DEF Place, Vectors

\* m is cur with other providers.
Keeps(m, cur) ==
  /\ m.m_cursorstate = cur.m_cursorstate /\ (cur.m_user_params => m.m_user_params)
  /\ SomeFailed(cur) => SomeFailed(m)

Put(cur, p, x) == [cur EXCEPT !.provs[p] = x]

\* x comes after p: a driver that failed is not forgotten.
Remembers(x, p) == p.failed => x.failed

LEMMA Replaced ==
  ASSUME NEW q \in Queries, NEW cur, Running(cur, q), NEW p \in DOMAIN q.tables,
         NEW x, Opened(x, q.tables[p]), Remembers(x, cur.provs[p]),
         NEW m, m = Put(cur, p, x)
  PROVE  /\ Running(m, q) /\ Keeps(m, cur)
         /\ m.provs[p] = x /\ \A i \in DOMAIN q.tables : i # p => m.provs[i] = cur.provs[i]
<1>1. cur \in Cursors(q) /\ cur.provs \in Seq(Providers) /\ DOMAIN cur.provs = DOMAIN q.tables
  BY RunningFacts DEF Running
<1>2. x \in Providers
  BY DEF Opened
<1> DEFINE v == [cur.provs EXCEPT ![p] = x]
<1>3. v \in Seq(Providers) /\ Len(v) = Len(cur.provs) /\ DOMAIN v = DOMAIN q.tables
  BY <1>1, <1>2, ExceptSeq
<1>4. v[p] = x /\ \A i \in DOMAIN q.tables : i # p => v[i] = cur.provs[i]
  BY <1>1
<1>5. m = [cur EXCEPT !.provs = v]
  BY <1>1 DEF Cursors, Put
<1> HIDE DEF v
<1>6. m \in Cursors(q)
  BY <1>1, <1>3, <1>5 DEF Cursors
<1>7. /\ m.provs = v /\ m.m_where_node = cur.m_where_node
      /\ m.m_cursorstate = cur.m_cursorstate
  BY <1>1, <1>5 DEF Cursors
<1>8. m.m_user_params = cur.m_user_params
  BY <1>1, <1>5 DEF Cursors
<1>9. Running(m, q)
  <2>1. \A i \in DOMAIN q.tables : Opened(m.provs[i], q.tables[i])
    BY <1>4, <1>7 DEF Running
  <2> QED BY <1>3, <1>6, <1>7, <2>1 DEF Running
<1>10. SomeFailed(cur) => SomeFailed(m)
  BY <1>1, <1>3, <1>4, <1>7 DEF SomeFailed, Remembers
<1> QED BY <1>4, <1>7, <1>8, <1>9, <1>10 DEF Keeps

\* A source that starts over is on its first row, unless its driver fails.
LEMMA Restarting ==
  ASSUME NEW q \in Queries, NEW cur, Running(cur, q), NEW p \in DOMAIN q.tables,
         NEW o \in Restart(cur, p)
  PROVE  /\ Running(o.cur, q) /\ Keeps(o.cur, cur)
         /\ \A i \in DOMAIN q.tables : i # p => o.cur.provs[i] = cur.provs[i]
         /\ \/ o.ret = Ok /\ (~SomeFailed(o.cur) => AtFirst(o.cur.provs[p]))
            \/ o.ret = Throw /\ SomeFailed(o.cur)
<1>1. PICK x \in ProvOpen(ProvClose(cur.provs[p])) :
        o = CurOutcome([cur EXCEPT !.provs[p] = x.prov],
                       IF x.ret = Ok THEN ProvFirst(x.prov) ELSE x.ret)
  BY DEF Restart, Reopened
<1> DEFINE old == cur.provs[p]
           c   == ProvClose(old)
<1>2. /\ old \in Providers /\ old.table = q.tables[p] /\ Opened(old, q.tables[p])
      /\ q.tables[p].rows \in Nat
  BY RunningFacts, QueryFacts DEF Running
<1>3. c \in Providers /\ c.table = q.tables[p] /\ c.at = old.at
  BY <1>2 DEF ProvClose, Providers
<1>4. c.failed = old.failed /\ c.m_isopen = old.m_isopen
  BY <1>2 DEF ProvClose, Providers
<1> HIDE DEF c
<1>5. /\ x.prov \in Providers /\ x.prov.table = c.table
      /\ c.failed => x.prov.failed
      /\ \/ /\ x.ret = Ok /\ x.prov.m_isopen /\ x.prov.m_handle /\ x.prov.m_current_tuple = 1
            /\ x.prov.at <= c.table.rows
            /\ ~x.prov.failed => AtFirst(x.prov)
         \/ /\ x.ret = Throw /\ x.prov.failed /\ x.prov.at = c.at
            /\ x.prov.m_isopen = c.m_isopen
  BY <1>1, <1>3, Opening DEF c
<1>6. Opened(x.prov, q.tables[p])
  BY <1>2, <1>3, <1>4, <1>5 DEF Opened
<1>7. o.cur = Put(cur, p, x.prov) /\ o.ret = IF x.ret = Ok THEN ProvFirst(x.prov) ELSE x.ret
  BY <1>1 DEF CurOutcome, Put
<1>8. /\ Running(o.cur, q) /\ Keeps(o.cur, cur) /\ o.cur.provs[p] = x.prov
      /\ \A i \in DOMAIN q.tables : i # p => o.cur.provs[i] = cur.provs[i]
  <2>1. Remembers(x.prov, cur.provs[p])
    BY <1>4, <1>5 DEF Remembers
  <2> QED BY <1>6, <1>7, <2>1, Replaced
<1>9. x.prov.failed => SomeFailed(o.cur)
  BY <1>8, RunningFacts DEF SomeFailed
<1>10. CASE x.ret = Ok
  <2>1. o.ret = Ok
    BY <1>5, <1>7, <1>10, Told DEF ProvFirst
  <2> QED BY <1>5, <1>8, <1>9, <1>10, <2>1, Told
<1>11. CASE x.ret = Throw
  BY <1>5, <1>7, <1>8, <1>9, <1>11, Told
<1> QED BY <1>5, <1>10, <1>11

\* One source's turn.
LEMMA Turning ==
  ASSUME NEW q \in Queries, NEW cur, Running(cur, q), NEW p \in DOMAIN q.tables,
         NEW o \in Turn(cur, p)
  PROVE  /\ Running(o.cur, q) /\ Keeps(o.cur, cur)
         /\ \A i \in DOMAIN q.tables : i # p => o.cur.provs[i] = cur.provs[i]
         /\ \/ /\ o.ret = Ok
               /\ ~SomeFailed(o.cur) =>
                    q.tables[p].rows <= cur.provs[p].at /\ AtFirst(o.cur.provs[p])
            \/ /\ o.ret = Yes /\ o.cur.provs[p].at = cur.provs[p].at + 1
               /\ ~SomeFailed(o.cur) => OnRow(o.cur.provs[p])
            \/ /\ o.ret = No /\ p = 1
               /\ ~SomeFailed(o.cur) => q.tables[p].rows <= cur.provs[p].at
            \/ o.ret \in {Throw, Undefined} /\ SomeFailed(o.cur)
<1>1. PICK x \in ProvNext(cur.provs[p]) :
        o \in LET moved == [cur EXCEPT !.provs[p] = x.prov]
              IN  IF x.ret = No /\ p > 1 THEN Restart(moved, p) ELSE Just(moved, x.ret)
  BY DEF Turn
<1> DEFINE moved == [cur EXCEPT !.provs[p] = x.prov]
<1>2. Opened(cur.provs[p], q.tables[p]) /\ q.tables[p] \in [rows : Nat, faulty : BOOLEAN]
  BY QueryFacts DEF Running
<1>3. /\ Opened(x.prov, q.tables[p]) /\ (cur.provs[p].failed => x.prov.failed)
      /\ \/ /\ x.ret = Yes /\ x.prov.at = cur.provs[p].at + 1
            /\ ~x.prov.failed => OnRow(x.prov)
         \/ x.ret = No /\ (~x.prov.failed => q.tables[p].rows <= cur.provs[p].at)
         \/ x.ret = Undefined /\ x.prov.failed
  BY <1>2, Nexting
<1>4. /\ Running(moved, q) /\ Keeps(moved, cur) /\ moved.provs[p] = x.prov
      /\ \A i \in DOMAIN q.tables : i # p => moved.provs[i] = cur.provs[i]
  <2>1. Opened(x.prov, q.tables[p]) /\ Remembers(x.prov, cur.provs[p])
    BY <1>3 DEF Remembers
  <2>2. moved = Put(cur, p, x.prov)
    BY DEF Put
  <2> HIDE DEF moved
  <2> QED BY <2>1, <2>2, Replaced
<1>5. x.prov.failed => SomeFailed(moved)
  BY <1>4, RunningFacts DEF SomeFailed
<1>6. IF x.ret = No /\ p > 1 THEN o \in Restart(moved, p) ELSE o.cur = moved /\ o.ret = x.ret
  BY <1>1 DEF Just, CurOutcome
<1> HIDE DEF moved
<1>7. CASE x.ret = No /\ p > 1
  <2>1. o \in Restart(moved, p)
    BY <1>6, <1>7
  <2>2. /\ Running(o.cur, q) /\ Keeps(o.cur, moved)
        /\ \A i \in DOMAIN q.tables : i # p => o.cur.provs[i] = moved.provs[i]
        /\ \/ o.ret = Ok /\ (~SomeFailed(o.cur) => AtFirst(o.cur.provs[p]))
           \/ o.ret = Throw /\ SomeFailed(o.cur)
    BY <1>4, <2>1, Restarting
  <2>3. Keeps(o.cur, cur)
    BY <1>4, <2>2 DEF Keeps
  <2>4. ~SomeFailed(o.cur) => q.tables[p].rows <= cur.provs[p].at
    BY <1>3, <1>5, <1>7, <2>2, Told DEF Keeps
  <2> QED BY <1>4, <2>2, <2>3, <2>4
<1>8. CASE ~(x.ret = No /\ p > 1)
  <2>1. o.cur = moved /\ o.ret = x.ret
    BY <1>6, <1>8
  <2>2. p \in Nat /\ p >= 1
    BY QueryFacts
  <2>3. x.ret = No => p = 1
    BY <1>8, <2>2
  <2>4. x.ret # Ok
    BY <1>3, Told
  <2> QED BY <1>3, <1>4, <1>5, <2>1, <2>3
<1> QED BY <1>7, <1>8

\* The outcomes after one more source's turn, and after each number of turns.
NextTurn(outcomes, p) ==
  UNION {IF o.ret = Ok THEN Turn(o.cur, p) ELSE {o} : o \in outcomes}

Turns(f, cur, n, m) ==
  f = [k \in 0 .. m |-> IF k = 0 THEN Just(cur, Ok) ELSE NextTurn(f[k - 1], n + 1 - k)]

LEMMA TurnsDefined ==
  ASSUME NEW cur, NEW n
  PROVE  \A m \in Nat : \E f : Turns(f, cur, n, m)
<1> DEFINE T == {m \in Nat : ~\E f : Turns(f, cur, n, m)}
<1>1. SUFFICES ASSUME T # {} PROVE FALSE
  OBVIOUS
<1>2. T \subseteq Nat
  OBVIOUS
<1> HIDE DEF T
<1>3. PICK m \in T : \A y \in T : m <= y
  BY <1>1, <1>2, LeastMember
<1>4. m \in Nat /\ ~\E f : Turns(f, cur, n, m)
  BY <1>3 DEF T
<1>5. CASE m = 0
  <2> DEFINE f == [k \in 0 .. m |-> Just(cur, Ok)]
  <2>1. \A k \in 0 .. m : k = 0
    BY <1>5
  <2>2. f = [k \in 0 .. m |-> IF k = 0 THEN Just(cur, Ok) ELSE NextTurn(f[k - 1], n + 1 - k)]
    BY <2>1
  <2>3. Turns(f, cur, n, m)
    BY <2>2 DEF Turns
  <2> QED BY <1>4, <2>3
<1>6. CASE m # 0
  <2>1. m - 1 \in Nat /\ ~(m <= m - 1) /\ m \in 0 .. m
    BY <1>4, <1>6
  <2>2. m - 1 \notin T
    BY <1>3, <2>1
  <2>3. PICK f : Turns(f, cur, n, m - 1)
    BY <2>1, <2>2 DEF T
  <2> DEFINE e == [k \in 0 .. m |-> IF k = m THEN NextTurn(f[m - 1], n + 1 - m) ELSE f[k]]
  <2>4. \A k \in 0 .. m : k # m => k \in 0 .. m - 1
    BY <1>4
  <2>5. \A k \in 0 .. m : k # 0 => k - 1 \in 0 .. m /\ k - 1 # m /\ k - 1 \in 0 .. m - 1
    BY <1>4
  <2>6. \A k \in 0 .. m : e[k] = IF k = m THEN NextTurn(f[m - 1], n + 1 - m) ELSE f[k]
    OBVIOUS
  <2>7. e = [k \in 0 .. m |-> e[k]]
    OBVIOUS
  <2> HIDE DEF e
  <2>8. ASSUME NEW k \in 0 .. m
        PROVE  e[k] = IF k = 0 THEN Just(cur, Ok) ELSE NextTurn(e[k - 1], n + 1 - k)
    <3>1. CASE k = m
      <4>1. e[k - 1] = f[m - 1]
        BY <1>6, <2>5, <2>6, <3>1
      <4> QED BY <1>6, <2>6, <3>1, <4>1
    <3>2. CASE k # m
      <4>1. e[k] = f[k] /\ k \in 0 .. m - 1
        BY <2>4, <2>6, <3>2
      <4>2. f[k] = IF k = 0 THEN Just(cur, Ok) ELSE NextTurn(f[k - 1], n + 1 - k)
        BY <2>3, <4>1 DEF Turns
      <4>3. k # 0 => e[k - 1] = f[k - 1]
        BY <2>5, <2>6
      <4> QED BY <4>1, <4>2, <4>3
    <3> QED BY <3>1, <3>2
  <2>9. Turns(e, cur, n, m)
    BY <2>7, <2>8 DEF Turns
  <2> QED BY <1>4, <2>9
<1> QED BY <1>5, <1>6

\* What the search comes to when k sources had their turn: they all started over
\* (Ok), one of them moved on (Yes), or all there are are at their ends (No).
Searched(o, cur, q, k) ==
  LET n == Len(q.tables)
      AtEnd(i) == q.tables[i].rows <= cur.provs[i].at
  IN  /\ Running(o.cur, q) /\ Keeps(o.cur, cur)
      /\ \/ /\ o.ret = Ok
            /\ \A i \in 1 .. n : i + k <= n => o.cur.provs[i] = cur.provs[i]
            /\ ~SomeFailed(o.cur) =>
                 \A i \in 1 .. n : n < i + k => AtEnd(i) /\ AtFirst(o.cur.provs[i])
         \/ /\ o.ret = Yes
            /\ \E p \in 1 .. n :
                 /\ \A i \in 1 .. n : i < p => o.cur.provs[i] = cur.provs[i]
                 /\ o.cur.provs[p].at = cur.provs[p].at + 1
                 /\ ~SomeFailed(o.cur) =>
                      /\ OnRow(o.cur.provs[p])
                      /\ \A i \in 1 .. n : p < i => AtEnd(i) /\ AtFirst(o.cur.provs[i])
         \/ o.ret = No /\ (~SomeFailed(o.cur) => \A i \in 1 .. n : AtEnd(i))
         \/ o.ret \in {Throw, Undefined} /\ SomeFailed(o.cur)

LEMMA SearchGoesOn ==
  ASSUME NEW q \in Queries, NEW cur, Running(cur, q), NEW k \in 1 .. Len(q.tables),
         NEW w, Searched(w, cur, q, k - 1), w.ret = Ok,
         NEW o \in Turn(w.cur, Len(q.tables) + 1 - k)
  PROVE  Searched(o, cur, q, k)
<1> DEFINE n == Len(q.tables)
           p == n + 1 - k
<1>1. n \in Nat /\ DOMAIN q.tables = 1 .. n /\ p \in 1 .. n /\ k \in Nat
  BY QueryFacts
<1>2. /\ Running(w.cur, q) /\ Keeps(w.cur, cur)
      /\ \A i \in 1 .. n : i + (k - 1) <= n => w.cur.provs[i] = cur.provs[i]
      /\ ~SomeFailed(w.cur) =>
           \A i \in 1 .. n : n < i + (k - 1) =>
             q.tables[i].rows <= cur.provs[i].at /\ AtFirst(w.cur.provs[i])
  BY Told DEF Searched
<1>3. /\ Running(o.cur, q) /\ Keeps(o.cur, w.cur)
      /\ \A i \in 1 .. n : i # p => o.cur.provs[i] = w.cur.provs[i]
      /\ \/ /\ o.ret = Ok
            /\ ~SomeFailed(o.cur) =>
                 q.tables[p].rows <= w.cur.provs[p].at /\ AtFirst(o.cur.provs[p])
         \/ /\ o.ret = Yes /\ o.cur.provs[p].at = w.cur.provs[p].at + 1
            /\ ~SomeFailed(o.cur) => OnRow(o.cur.provs[p])
         \/ /\ o.ret = No /\ p = 1
            /\ ~SomeFailed(o.cur) => q.tables[p].rows <= w.cur.provs[p].at
         \/ o.ret \in {Throw, Undefined} /\ SomeFailed(o.cur)
  <2>1. p \in DOMAIN q.tables /\ o \in Turn(w.cur, p) /\ Running(w.cur, q)
    BY <1>1, <1>2
  <2> HIDE DEF p
  <2>2. \A i \in DOMAIN q.tables : i # p => o.cur.provs[i] = w.cur.provs[i]
    BY <2>1, Turning
  <2> QED BY <1>1, <2>1, <2>2, Turning
<1>4. Keeps(o.cur, cur) /\ (~SomeFailed(o.cur) => ~SomeFailed(w.cur))
  BY <1>2, <1>3 DEF Keeps
<1>5. \A i \in 1 .. n : /\ i + (k - 1) <= n <=> i <= p
                        /\ n < i + (k - 1) <=> p < i
                        /\ i + k <= n <=> i < p
                        /\ n < i + k <=> p <= i
  BY <1>1
<1>6. w.cur.provs[p] = cur.provs[p]
  BY <1>1, <1>2, <1>5
<1>7. \A i \in 1 .. n : i < p => i # p /\ o.cur.provs[i] = cur.provs[i]
  <2>1. \A i \in 1 .. n : i < p => i # p /\ i <= p
    BY <1>1
  <2> HIDE DEF p
  <2> QED BY <1>2, <1>3, <1>5, <2>1
<1>8. ~SomeFailed(o.cur) =>
        \A i \in 1 .. n : p < i => q.tables[i].rows <= cur.provs[i].at /\ AtFirst(o.cur.provs[i])
  <2>1. \A i \in 1 .. n : p < i => i # p
    BY <1>1
  <2> QED BY <1>2, <1>3, <1>4, <1>5, <2>1
<1> HIDE DEF p
<1>9. CASE o.ret = Ok
  <2>1. ~SomeFailed(o.cur) => q.tables[p].rows <= cur.provs[p].at /\ AtFirst(o.cur.provs[p])
    BY <1>3, <1>6, <1>9, Told
  <2>2. \A i \in 1 .. n : p <= i => i = p \/ p < i
    BY <1>1
  <2>3. ~SomeFailed(o.cur) =>
          \A i \in 1 .. n : n < i + k => q.tables[i].rows <= cur.provs[i].at /\ AtFirst(o.cur.provs[i])
    BY <1>5, <1>8, <2>1, <2>2
  <2>4. \A i \in 1 .. n : i + k <= n => o.cur.provs[i] = cur.provs[i]
    BY <1>5, <1>7
  <2> QED BY <1>3, <1>4, <1>9, <2>3, <2>4 DEF Searched
<1>10. CASE o.ret = Yes
  <2>1. /\ o.cur.provs[p].at = cur.provs[p].at + 1
        /\ ~SomeFailed(o.cur) => OnRow(o.cur.provs[p])
    BY <1>3, <1>6, <1>10, Told
  <2> QED BY <1>1, <1>3, <1>4, <1>7, <1>8, <1>10, <2>1 DEF Searched
<1>11. CASE o.ret = No
  <2>1. p = 1 /\ (~SomeFailed(o.cur) => q.tables[p].rows <= cur.provs[p].at)
    BY <1>3, <1>6, <1>11, Told
  <2>2. \A i \in 1 .. n : i = p \/ p < i
    BY <1>1, <2>1
  <2>3. ~SomeFailed(o.cur) => \A i \in 1 .. n : q.tables[i].rows <= cur.provs[i].at
    BY <1>8, <2>1, <2>2
  <2> QED BY <1>3, <1>4, <1>11, <2>3 DEF Searched
<1>12. CASE o.ret \in {Throw, Undefined}
  BY <1>3, <1>4, <1>12, Told DEF Searched
<1> QED BY <1>3, <1>9, <1>10, <1>11, <1>12

\* An outcome that ended the search is one for every number of turns.
LEMMA SearchEnded ==
  ASSUME NEW q, NEW cur, NEW k, NEW j, NEW o, Searched(o, cur, q, k), o.ret # Ok
  PROVE  Searched(o, cur, q, j)
BY DEF Searched

LEMMA SearchedAll ==
  ASSUME NEW q \in Queries, NEW cur, Running(cur, q),
         NEW f, Turns(f, cur, Len(q.tables), Len(q.tables))
  PROVE  \A k \in 0 .. Len(q.tables) : \A o \in f[k] : Searched(o, cur, q, k)
<1> DEFINE n == Len(q.tables)
           T == {k \in 0 .. n : ~\A o \in f[k] : Searched(o, cur, q, k)}
<1>1. SUFFICES ASSUME T # {} PROVE FALSE
  OBVIOUS
<1>2. n \in Nat /\ T \subseteq Nat
  BY QueryFacts
<1> HIDE DEF T
<1>3. PICK m \in T : \A y \in T : m <= y
  BY <1>1, <1>2, LeastMember
<1>4. PICK o \in f[m] : ~Searched(o, cur, q, m)
  BY <1>3 DEF T
<1>5. m \in 0 .. n
  BY <1>3 DEF T
<1>6. f[m] = IF m = 0 THEN Just(cur, Ok) ELSE NextTurn(f[m - 1], n + 1 - m)
  BY <1>5 DEF Turns
<1>7. CASE m = 0
  <2>1. o.cur = cur /\ o.ret = Ok
    BY <1>4, <1>6, <1>7 DEF Just, CurOutcome
  <2>2. \A i \in 1 .. n : ~(n < i + 0)
    BY <1>2
  <2>3. Keeps(cur, cur)
    BY DEF Keeps
  <2> QED BY <1>4, <1>7, <2>1, <2>2, <2>3 DEF Searched
<1>8. CASE m # 0
  <2>1. m - 1 \in 0 .. n /\ ~(m <= m - 1) /\ m \in 1 .. n
    BY <1>2, <1>5, <1>8
  <2>2. \A w \in f[m - 1] : Searched(w, cur, q, m - 1)
    BY <1>3, <2>1 DEF T
  <2>3. PICK w \in f[m - 1] : o \in IF w.ret = Ok THEN Turn(w.cur, n + 1 - m) ELSE {w}
    BY <1>4, <1>6, <1>8 DEF NextTurn
  <2>4. CASE w.ret = Ok
    <3>1. o \in Turn(w.cur, Len(q.tables) + 1 - m) /\ Searched(w, cur, q, m - 1)
      BY <2>2, <2>3, <2>4
    <3> QED BY <1>4, <2>1, <2>4, <3>1, SearchGoesOn
  <2>5. CASE w.ret # Ok
    BY <1>4, <2>2, <2>3, <2>5, SearchEnded
  <2> QED BY <2>4, <2>5
<1> QED BY <1>7, <1>8

LEMMA StateSet ==
  ASSUME NEW q \in Queries, NEW cur, Running(cur, q), NEW s \in {"OPEN", "POSITIONED", "EOF"}
  PROVE  /\ Running(SetState(cur, s), q) /\ SetState(cur, s).provs = cur.provs
         /\ IsOpen(SetState(cur, s)) /\ (Ended(SetState(cur, s)) <=> s = "EOF")
         /\ cur.m_user_params => SetState(cur, s).m_user_params
<1> DEFINE m == SetCursorState(cur.m_cursorstate, s)
<1>1. m \in SUBSET CursorFlags /\ "OPEN" \in m /\ ("EOF" \in m <=> s = "EOF")
  BY Masks DEF SetCursorState, CursorFlags
<1>2. SetState(cur, s) = [cur EXCEPT !.m_cursorstate = m]
  BY DEF SetState
<1> HIDE DEF m
<1>3. cur \in Cursors(q)
  BY DEF Running
<1>4. SetState(cur, s) \in Cursors(q)
  BY <1>1, <1>2, <1>3 DEF Cursors
<1>5. /\ SetState(cur, s).provs = cur.provs /\ SetState(cur, s).m_cursorstate = m
      /\ SetState(cur, s).m_where_node = cur.m_where_node
  BY <1>2, <1>3 DEF Cursors
<1>6. SetState(cur, s).m_user_params = cur.m_user_params
  BY <1>2, <1>3 DEF Cursors
<1> QED BY <1>1, <1>4, <1>5, <1>6 DEF Running, IsOpen, Ended

\* A call of internalNext() from cur comes to m.
MovesOn(m, cur, q) ==
  \E p \in 1 .. Len(q.tables) :
    /\ \A i \in 1 .. Len(q.tables) : i < p => m.provs[i] = cur.provs[i]
    /\ m.provs[p].at = cur.provs[p].at + 1
    /\ ~SomeFailed(m) =>
         /\ OnRow(m.provs[p])
         /\ \A i \in 1 .. Len(q.tables) :
              p < i => q.tables[i].rows <= cur.provs[i].at /\ AtFirst(m.provs[i])

LEMMA Searching ==
  ASSUME NEW q \in Queries, NEW cur, Running(cur, q), IsOpen(cur), NEW o \in InternalNext(cur)
  PROVE  /\ Running(o.cur, q) /\ IsOpen(o.cur) /\ (cur.m_user_params => o.cur.m_user_params)
         /\ SomeFailed(cur) => SomeFailed(o.cur)
         /\ \/ o.ret = Yes /\ (Ended(o.cur) <=> Ended(cur)) /\ MovesOn(o.cur, cur, q)
            \/ /\ o.ret = No /\ Ended(o.cur)
               /\ ~SomeFailed(o.cur) =>
                    \A i \in 1 .. Len(q.tables) : q.tables[i].rows <= cur.provs[i].at
            \/ o.ret \in {Throw, Undefined} /\ SomeFailed(o.cur)
<1> DEFINE n == Len(cur.provs)
           F(f) == f = [k \in 0 .. n |->
                          IF k = 0 THEN Just(cur, Ok)
                          ELSE UNION {IF w.ret = Ok THEN Turn(w.cur, n + 1 - k) ELSE {w} : w \in f[k - 1]}]
           turned == CHOOSE f : F(f)
<1>1. n \in Nat \ {0} /\ Len(q.tables) = n
  BY QueryFacts DEF Running
<1>2. \A f : F(f) <=> Turns(f, cur, n, n)
  BY DEF Turns, NextTurn
<1>3. PICK g : Turns(g, cur, n, n)
  BY <1>1, TurnsDefined
<1>4. Turns(turned, cur, n, n)
  <2>1. F(g)
    BY <1>2, <1>3
  <2> HIDE DEF F
  <2>2. F(turned)
    BY <2>1
  <2> QED BY <1>2, <2>2
<1>5. PICK w \in turned[n] :
        o = IF w.ret \in {Ok, No} THEN CurOutcome(SetState(w.cur, "EOF"), No) ELSE w
  BY DEF InternalNext
<1> HIDE DEF turned, F, n
<1>6. Searched(w, cur, q, n)
  BY <1>1, <1>4, <1>5, SearchedAll
<1>7. CASE w.ret \in {Ok, No}
  <2>1. o.cur = SetState(w.cur, "EOF") /\ o.ret = No
    BY <1>5, <1>7 DEF CurOutcome
  <2>2. /\ Running(w.cur, q) /\ Keeps(w.cur, cur)
        /\ ~SomeFailed(w.cur) => \A i \in 1 .. n : q.tables[i].rows <= cur.provs[i].at
    <3>1. \A i \in 1 .. n : n < i + n
      BY <1>1
    <3> QED BY <1>1, <1>6, <1>7, <3>1, Told DEF Searched
  <2>3. /\ Running(o.cur, q) /\ o.cur.provs = w.cur.provs /\ IsOpen(o.cur) /\ Ended(o.cur)
        /\ w.cur.m_user_params => o.cur.m_user_params
    BY <2>1, <2>2, StateSet
  <2>4. SomeFailed(o.cur) <=> SomeFailed(w.cur)
    BY <2>3 DEF SomeFailed
  <2> QED BY <1>1, <2>1, <2>2, <2>3, <2>4 DEF Keeps
<1>8. CASE w.ret \notin {Ok, No}
  <2>1. o = w
    BY <1>5, <1>8
  <2>2. /\ Running(o.cur, q) /\ Keeps(o.cur, cur)
        /\ \/ o.ret = Yes /\ MovesOn(o.cur, cur, q)
           \/ o.ret \in {Throw, Undefined} /\ SomeFailed(o.cur)
    BY <1>6, <1>8, <2>1 DEF Searched, MovesOn
  <2>3. IsOpen(o.cur) /\ (Ended(o.cur) <=> Ended(cur))
    BY <2>2 DEF Keeps, IsOpen, Ended
  <2> QED BY <2>2, <2>3 DEF Keeps
<1> QED BY <1>7, <1>8

-----------------------------------------------------------------------------
(* prepare(), execute(), first() and the condition                         *)

\* The outcomes after one more provider, and after each number of providers.
NextProvider(outcomes, table) ==
  UNION {IF o.ret = Ok THEN WithProvider(o.cur, table) ELSE {o} : o \in outcomes}

Creates(f, cur, m) ==
  f = [k \in 0 .. m |-> IF k = 0 THEN Just(cur, Ok) ELSE NextProvider(f[k - 1], cur.m_objects_vector[k])]

LEMMA CreatesDefined ==
  ASSUME NEW cur
  PROVE  \A m \in Nat : \E f : Creates(f, cur, m)
<1> DEFINE T == {m \in Nat : ~\E f : Creates(f, cur, m)}
<1>1. SUFFICES ASSUME T # {} PROVE FALSE
  OBVIOUS
<1>2. T \subseteq Nat
  OBVIOUS
<1> HIDE DEF T
<1>3. PICK m \in T : \A y \in T : m <= y
  BY <1>1, <1>2, LeastMember
<1>4. m \in Nat /\ ~\E f : Creates(f, cur, m)
  BY <1>3 DEF T
<1>5. CASE m = 0
  <2> DEFINE f == [k \in 0 .. m |-> Just(cur, Ok)]
  <2>1. \A k \in 0 .. m : k = 0
    BY <1>5
  <2>2. f = [k \in 0 .. m |-> IF k = 0 THEN Just(cur, Ok) ELSE NextProvider(f[k - 1], cur.m_objects_vector[k])]
    BY <2>1
  <2>3. Creates(f, cur, m)
    BY <2>2 DEF Creates
  <2> QED BY <1>4, <2>3
<1>6. CASE m # 0
  <2>1. m - 1 \in Nat /\ ~(m <= m - 1) /\ m \in 0 .. m
    BY <1>4, <1>6
  <2>2. m - 1 \notin T
    BY <1>3, <2>1
  <2>3. PICK f : Creates(f, cur, m - 1)
    BY <2>1, <2>2 DEF T
  <2> DEFINE e == [k \in 0 .. m |-> IF k = m THEN NextProvider(f[m - 1], cur.m_objects_vector[m]) ELSE f[k]]
  <2>4. \A k \in 0 .. m : k # m => k \in 0 .. m - 1
    BY <1>4
  <2>5. \A k \in 0 .. m : k # 0 => k - 1 \in 0 .. m /\ k - 1 # m /\ k - 1 \in 0 .. m - 1
    BY <1>4
  <2>6. \A k \in 0 .. m : e[k] = IF k = m THEN NextProvider(f[m - 1], cur.m_objects_vector[m]) ELSE f[k]
    OBVIOUS
  <2>7. e = [k \in 0 .. m |-> e[k]]
    OBVIOUS
  <2> HIDE DEF e
  <2>8. ASSUME NEW k \in 0 .. m
        PROVE  e[k] = IF k = 0 THEN Just(cur, Ok) ELSE NextProvider(e[k - 1], cur.m_objects_vector[k])
    <3>1. CASE k = m
      <4>1. e[k - 1] = f[m - 1]
        BY <1>6, <2>5, <2>6, <3>1
      <4> QED BY <1>6, <2>6, <3>1, <4>1
    <3>2. CASE k # m
      <4>1. e[k] = f[k] /\ k \in 0 .. m - 1
        BY <2>4, <2>6, <3>2
      <4>2. f[k] = IF k = 0 THEN Just(cur, Ok) ELSE NextProvider(f[k - 1], cur.m_objects_vector[k])
        BY <2>3, <4>1 DEF Creates
      <4>3. k # 0 => e[k - 1] = f[k - 1]
        BY <2>5, <2>6
      <4> QED BY <4>1, <4>2, <4>3
    <3> QED BY <3>1, <3>2
  <2>9. Creates(e, cur, m)
    BY <2>7, <2>8 DEF Creates
  <2> QED BY <1>4, <2>9
<1> QED BY <1>5, <1>6

\* The first k sources were opened.
Created(o, q, k) ==
  /\ o.cur \in Cursors(q)
  /\ \/ /\ o.ret = Ok /\ Len(o.cur.provs) = k
        /\ \A i \in 1 .. k : Untouched(o.cur.provs[i], q.tables[i])
     \/ o.ret = Throw /\ SomeFailed(o.cur)

LEMMA CreatedOneMore ==
  ASSUME NEW q \in Queries, NEW k \in 1 .. Len(q.tables),
         NEW w, Created(w, q, k - 1), w.ret = Ok,
         NEW o \in WithProvider(w.cur, q.tables[k])
  PROVE  Created(o, q, k)
<1> DEFINE t == q.tables[k]
           p == ProviderInit(t)
           s == w.cur.provs
<1>1. PICK x \in ProvOpen(p) : o = CurOutcome([w.cur EXCEPT !.provs = Append(@, x.prov)], x.ret)
  BY DEF WithProvider
<1>2. t \in [rows : Nat, faulty : BOOLEAN] /\ t.rows \in Nat /\ k \in Nat \ {0}
  BY QueryFacts
<1>3. /\ w.cur \in Cursors(q) /\ s \in Seq(Providers) /\ Len(s) = k - 1
      /\ \A i \in 1 .. k - 1 : Untouched(s[i], q.tables[i])
  BY Told DEF Created, Cursors
<1>4. p \in Providers /\ p.table = t
  BY <1>2 DEF ProviderInit, Providers, NPOS
<1> HIDE DEF p
<1>5. /\ x.prov \in Providers /\ x.prov.table = t
      /\ \/ x.ret = Ok /\ Untouched(x.prov, t)
         \/ x.ret = Throw /\ x.prov.failed
  BY <1>4, Opening DEF Untouched, Opened
<1> DEFINE v == Append(s, x.prov)
<1>6. o.ret = x.ret /\ o.cur = [w.cur EXCEPT !.provs = v]
  BY <1>1, <1>3 DEF CurOutcome, Cursors
<1> HIDE DEF s, t
<1>7. /\ v \in Seq(Providers) /\ Len(v) = k /\ v[k] = x.prov /\ DOMAIN v = 1 .. k
      /\ \A i \in 1 .. k - 1 : v[i] = s[i]
  BY <1>2, <1>3, <1>5
<1> HIDE DEF v
<1>8. o.cur \in Cursors(q) /\ o.cur.provs = v
  BY <1>3, <1>6, <1>7 DEF Cursors
<1>9. CASE x.ret = Ok /\ Untouched(x.prov, t)
  <2>1. \A i \in 1 .. k : i = k \/ i \in 1 .. k - 1
    BY <1>2
  <2>2. \A i \in 1 .. k : Untouched(v[i], q.tables[i])
    BY <1>3, <1>7, <1>9, <2>1 DEF t
  <2> QED BY <1>6, <1>7, <1>8, <1>9, <2>2 DEF Created
<1>10. CASE x.ret = Throw /\ x.prov.failed
  <2>1. k \in DOMAIN o.cur.provs /\ o.cur.provs[k].failed
    BY <1>2, <1>7, <1>8, <1>10
  <2> QED BY <1>6, <1>8, <1>10, <2>1 DEF Created, SomeFailed
<1> QED BY <1>5, <1>9, <1>10

LEMMA CreatedAll ==
  ASSUME NEW q \in Queries, NEW cur \in Cursors(q), cur.provs = <<>>,
         cur.m_objects_vector = q.tables, NEW f, Creates(f, cur, Len(q.tables))
  PROVE  \A k \in 0 .. Len(q.tables) : \A o \in f[k] : Created(o, q, k)
<1> DEFINE n == Len(q.tables)
           T == {k \in 0 .. n : ~\A o \in f[k] : Created(o, q, k)}
<1>1. SUFFICES ASSUME T # {} PROVE FALSE
  OBVIOUS
<1>2. n \in Nat /\ T \subseteq Nat
  BY QueryFacts
<1> HIDE DEF T
<1>3. PICK m \in T : \A y \in T : m <= y
  BY <1>1, <1>2, LeastMember
<1>4. PICK o \in f[m] : ~Created(o, q, m)
  BY <1>3 DEF T
<1>5. m \in 0 .. n
  BY <1>3 DEF T
<1>6. f[m] = IF m = 0 THEN Just(cur, Ok) ELSE NextProvider(f[m - 1], q.tables[m])
  BY <1>5 DEF Creates
<1>7. CASE m = 0
  <2>1. o.cur = cur /\ o.ret = Ok
    BY <1>4, <1>6, <1>7 DEF Just, CurOutcome
  <2>2. Len(cur.provs) = 0 /\ \A i \in 1 .. 0 : FALSE
    OBVIOUS
  <2> QED BY <1>4, <1>7, <2>1, <2>2 DEF Created
<1>8. CASE m # 0
  <2>1. m - 1 \in 0 .. n /\ ~(m <= m - 1) /\ m \in 1 .. n
    BY <1>2, <1>5, <1>8
  <2>2. \A w \in f[m - 1] : Created(w, q, m - 1)
    BY <1>3, <2>1 DEF T
  <2>3. PICK w \in f[m - 1] : o \in IF w.ret = Ok THEN WithProvider(w.cur, q.tables[m]) ELSE {w}
    BY <1>4, <1>6, <1>8 DEF NextProvider
  <2>4. CASE w.ret = Ok
    <3>1. o \in WithProvider(w.cur, q.tables[m]) /\ Created(w, q, m - 1)
      BY <2>2, <2>3, <2>4
    <3> QED BY <1>4, <2>1, <2>4, <3>1, CreatedOneMore
  <2>5. CASE w.ret # Ok
    BY <1>4, <2>2, <2>3, <2>5 DEF Created
  <2> QED BY <2>4, <2>5
<1> QED BY <1>7, <1>8

\* prepare() leaves every source on its first row, or the driver failed.
LEMMA Preparing ==
  ASSUME NEW q \in Queries, NEW o \in CurPrepare(CursorInit, q.tables, q.where)
  PROVE  \/ /\ o.ret = Ok /\ Running(o.cur, q)
            /\ \A i \in DOMAIN q.tables : Untouched(o.cur.provs[i], q.tables[i])
         \/ o.ret = Throw /\ SomeFailed(o.cur)
<1> DEFINE cur == [CursorInit EXCEPT !.m_objects_vector = q.tables]
           n == Len(cur.m_objects_vector)
           F(f) == f = [k \in 0 .. n |->
                          IF k = 0 THEN Just(cur, Ok)
                          ELSE UNION {IF w.ret = Ok THEN WithProvider(w.cur, cur.m_objects_vector[k]) ELSE {w} :
                                        w \in f[k - 1]}]
           created == CHOOSE f : F(f)
<1>1. CreateProviders(cur) = created[n]
  BY DEF CreateProviders
<1>2. cur \in Cursors(q) /\ cur.provs = <<>> /\ cur.m_objects_vector = q.tables
  <2>1. <<>> \in Seq(Providers)
    OBVIOUS
  <2>2. CursorInit \in Cursors(q) /\ CursorInit.provs = <<>>
    BY <2>1 DEF CursorInit, Cursors, CLOSED
  <2> QED BY <2>2 DEF Cursors
<1>3. PICK w \in CreateProviders(cur) :
        o = IF w.ret # Ok THEN w
            ELSE CurOutcome(SetState([w.cur EXCEPT !.m_where_node = q.where], "PREPARED"), Ok)
  BY DEF CurPrepare
<1>4. \A f : F(f) <=> Creates(f, cur, n)
  BY DEF Creates, NextProvider
<1> HIDE DEF cur
<1>5. n = Len(q.tables) /\ n \in Nat
  BY <1>2, QueryFacts
<1> HIDE DEF n
<1>6. PICK g : Creates(g, cur, n)
  BY <1>5, CreatesDefined
<1>7. Creates(created, cur, n)
  <2>1. F(g)
    BY <1>4, <1>6
  <2> HIDE DEF F
  <2>2. F(created)
    BY <2>1
  <2> QED BY <1>4, <2>2
<1> HIDE DEF created, F
<1>8. Created(w, q, n)
  <2>1. n \in 0 .. n
    BY <1>5
  <2> QED BY <1>1, <1>2, <1>3, <1>5, <1>7, <2>1, CreatedAll
<1>9. CASE w.ret # Ok
  BY <1>3, <1>8, <1>9 DEF Created
<1>10. CASE w.ret = Ok
  <2> DEFINE c == [w.cur EXCEPT !.m_where_node = q.where]
             m == SetCursorState(c.m_cursorstate, "PREPARED")
  <2>1. /\ w.cur \in Cursors(q) /\ Len(w.cur.provs) = n
        /\ \A i \in 1 .. n : Untouched(w.cur.provs[i], q.tables[i])
    BY <1>8, <1>10, Told DEF Created
  <2>2. c \in Cursors(q) /\ c.provs = w.cur.provs /\ c.m_where_node = q.where
    BY <2>1 DEF Cursors
  <2>3. m \in SUBSET CursorFlags
    BY Masks DEF SetCursorState, CursorFlags
  <2>4. o.ret = Ok /\ o.cur = [c EXCEPT !.m_cursorstate = m]
    BY <1>3, <1>10 DEF CurOutcome, SetState
  <2> HIDE DEF c, m
  <2>5. o.cur \in Cursors(q) /\ o.cur.provs = c.provs /\ o.cur.m_where_node = c.m_where_node
    BY <2>2, <2>3, <2>4 DEF Cursors
  <2>6. \A i \in DOMAIN q.tables : Untouched(o.cur.provs[i], q.tables[i])
    BY <1>5, <2>1, <2>2, <2>5, QueryFacts
  <2>7. Running(o.cur, q)
    BY <1>5, <2>1, <2>2, <2>5, <2>6 DEF Running, Untouched
  <2> QED BY <2>4, <2>6, <2>7
<1> QED BY <1>9, <1>10

-----------------------------------------------------------------------------
(* Places and rows                                                         *)

Sizes(q) == [i \in 1 .. Len(q.tables) |-> q.tables[i].rows]

LEMMA RowFacts ==
  ASSUME NEW q \in Queries
  PROVE  /\ Sizes(q) \in Vectors(Len(q.tables))
         /\ \A row : row \in Combinations(q.tables) <=>
                       /\ row \in Vectors(Len(q.tables))
                       /\ \A i \in 1 .. Len(q.tables) : row[i] \in 1 .. Sizes(q)[i]
<1> DEFINE n == Len(q.tables)
           N == UNION {Rows(q.tables[i]) : i \in DOMAIN q.tables}
<1>1. n \in Nat /\ DOMAIN q.tables = 1 .. n /\ \A i \in 1 .. n : q.tables[i].rows \in Nat
  BY QueryFacts
<1>2. Sizes(q) \in Vectors(n) /\ \A i \in 1 .. n : Rows(q.tables[i]) = 1 .. Sizes(q)[i]
  BY <1>1 DEF Sizes, Vectors, Rows
<1>3. N \subseteq Nat /\ \A i \in 1 .. n : Rows(q.tables[i]) \subseteq N
  BY <1>1 DEF Rows
<1>4. Combinations(q.tables)
        = {row \in [1 .. n -> N] : \A i \in 1 .. n : row[i] \in Rows(q.tables[i])}
  BY <1>1 DEF Combinations
<1> HIDE DEF N
<1>5. ASSUME NEW row
      PROVE  row \in Combinations(q.tables) <=>
               row \in Vectors(n) /\ \A i \in 1 .. n : row[i] \in 1 .. Sizes(q)[i]
  <2>1. CASE row \in Combinations(q.tables)
    <3>1. row \in [1 .. n -> N] /\ \A i \in 1 .. n : row[i] \in Rows(q.tables[i])
      BY <1>4, <2>1
    <3>2. row \in Vectors(n)
      BY <1>3, <3>1 DEF Vectors
    <3> QED BY <1>2, <2>1, <3>1, <3>2
  <2>2. CASE row \in Vectors(n) /\ \A i \in 1 .. n : row[i] \in 1 .. Sizes(q)[i]
    <3>1. \A i \in 1 .. n : row[i] \in Rows(q.tables[i])
      BY <1>2, <2>2
    <3>2. row \in [1 .. n -> N]
      BY <1>3, <2>2, <3>1 DEF Vectors
    <3> QED BY <1>4, <2>2, <3>1, <3>2
  <2> QED BY <2>1, <2>2
<1> QED BY <1>2, <1>5

\* The place of a search that moved on comes after the one before.
LEMMA PlaceMoves ==
  ASSUME NEW q \in Queries, NEW cur, Running(cur, q), NEW m, Running(m, q), MovesOn(m, cur, q)
  PROVE  Before(Place(cur), Place(m))
<1> DEFINE n == Len(q.tables)
<1>1. n \in Nat /\ DOMAIN q.tables = 1 .. n
  BY QueryFacts
<1>2. /\ Place(cur) \in Vectors(n) /\ Place(m) \in Vectors(n)
      /\ \A i \in 1 .. n : Place(cur)[i] = cur.provs[i].at /\ Place(m)[i] = m.provs[i].at
  BY <1>1, RunningFacts
<1>3. PICK p \in 1 .. n :
        /\ \A i \in 1 .. n : i < p => m.provs[i] = cur.provs[i]
        /\ m.provs[p].at = cur.provs[p].at + 1
  BY DEF MovesOn
<1>4. Place(m)[p] = Place(cur)[p] + 1 /\ \A i \in 1 .. n : i < p => Place(m)[i] = Place(cur)[i]
  BY <1>2, <1>3
<1> QED BY <1>1, <1>2, <1>4, MovedOn

\* Where no source is empty and no driver failed it is the next combination.
LEMMA PlaceFollows ==
  ASSUME NEW q \in Queries, NEW cur, Running(cur, q), OnRows(cur, q),
         NEW m, Running(m, q), MovesOn(m, cur, q), ~SomeFailed(m),
         \A i \in DOMAIN q.tables : q.tables[i].rows # 0
  PROVE  /\ OnRows(m, q)
         /\ \A row \in Combinations(q.tables) : Before(row, Place(m)) <=> ~Before(Place(cur), row)
<1> DEFINE n == Len(q.tables)
           a == Place(cur)
           b == Place(m)
           size == Sizes(q)
<1>1. n \in Nat /\ DOMAIN q.tables = 1 .. n /\ \A i \in 1 .. n : q.tables[i].rows \in Nat
  BY QueryFacts
<1>2. /\ a \in Vectors(n) /\ b \in Vectors(n)
      /\ \A i \in 1 .. n : a[i] = cur.provs[i].at /\ b[i] = m.provs[i].at
      /\ \A i \in 1 .. n : m.provs[i].table = q.tables[i]
  BY <1>1, RunningFacts
<1>3. PICK p \in 1 .. n :
        /\ \A i \in 1 .. n : i < p => m.provs[i] = cur.provs[i]
        /\ m.provs[p].at = cur.provs[p].at + 1
        /\ OnRow(m.provs[p])
        /\ \A i \in 1 .. n : p < i => q.tables[i].rows <= cur.provs[i].at /\ AtFirst(m.provs[i])
  BY DEF MovesOn
<1>4. ASSUME NEW i \in 1 .. n, p < i PROVE OnRow(m.provs[i]) /\ b[i] = 1
  <2>1. AtFirst(m.provs[i]) /\ m.provs[i].table.rows > 0
    BY <1>1, <1>2, <1>3, <1>4
  <2> QED BY <1>2, <2>1 DEF AtFirst
<1>5. OnRows(m, q)
  <2>1. \A i \in 1 .. n : i < p => OnRow(m.provs[i])
    BY <1>1, <1>3 DEF OnRows
  <2>2. \A i \in 1 .. n : i < p \/ i = p \/ p < i
    BY <1>1
  <2> QED BY <1>1, <1>3, <1>4, <2>1, <2>2 DEF OnRows
<1>6. Follows(b, a, size, p, n)
  <2>1. \A i \in 1 .. n : i < p => b[i] = a[i]
    BY <1>2, <1>3
  <2>2. b[p] = a[p] + 1
    BY <1>2, <1>3
  <2>3. \A i \in 1 .. n : p < i => size[i] <= a[i]
    BY <1>2, <1>3 DEF Sizes
  <2> QED BY <1>4, <2>1, <2>2, <2>3 DEF Follows
<1> HIDE DEF a, b, size
<1>7. ASSUME NEW row \in Combinations(q.tables) PROVE Before(row, b) <=> ~Before(a, row)
  <2>1. row \in Vectors(n) /\ size \in Vectors(n) /\ \A i \in 1 .. n : row[i] \in 1 .. size[i]
    BY RowFacts DEF size
  <2> QED BY <1>1, <1>2, <1>6, <2>1, Successor
<1> QED BY <1>5, <1>7 DEF a, b

\* Nothing comes after the place where all sources are at their ends.
LEMMA PlaceIsLast ==
  ASSUME NEW q \in Queries, NEW cur, Running(cur, q),
         \A i \in 1 .. Len(q.tables) : q.tables[i].rows <= cur.provs[i].at,
         NEW row \in Combinations(q.tables)
  PROVE  ~Before(Place(cur), row)
<1> DEFINE n == Len(q.tables)
<1>1. n \in Nat /\ DOMAIN q.tables = 1 .. n /\ \A i \in 1 .. n : q.tables[i].rows \in Nat
  BY QueryFacts
<1>2. /\ Place(cur) \in Vectors(n)
      /\ \A i \in 1 .. n : Place(cur)[i] = cur.provs[i].at
  BY <1>1, RunningFacts
<1>3. \A i \in 1 .. n : row[i] \in 1 .. q.tables[i].rows
  BY RowFacts DEF Sizes
<1>4. \A i \in 1 .. n : ~(Place(cur)[i] < row[i])
  BY <1>1, <1>2, <1>3 DEF Vectors
<1> QED BY <1>2, <1>4 DEF Before, Vectors

\* Nothing comes before the place where all sources are on their first rows.
LEMMA PlaceIsFirst ==
  ASSUME NEW q \in Queries, NEW cur, Running(cur, q),
         \A i \in DOMAIN q.tables : AtFirst(cur.provs[i]),
         \A i \in DOMAIN q.tables : q.tables[i].rows # 0
  PROVE  /\ OnRows(cur, q)
         /\ \A row \in Combinations(q.tables) : ~Before(row, Place(cur))
<1> DEFINE n == Len(q.tables)
<1>1. n \in Nat /\ DOMAIN q.tables = 1 .. n /\ \A i \in 1 .. n : q.tables[i].rows \in Nat
  BY QueryFacts
<1>2. \A i \in 1 .. n : Place(cur)[i] = cur.provs[i].at /\ cur.provs[i].table = q.tables[i]
  BY <1>1, RunningFacts
<1>3. \A i \in 1 .. n : cur.provs[i].table.rows > 0
  BY <1>1, <1>2
<1>4. \A i \in 1 .. n : OnRow(cur.provs[i]) /\ Place(cur)[i] = 1
  BY <1>1, <1>2, <1>3 DEF AtFirst
<1>5. ASSUME NEW row \in Combinations(q.tables) PROVE ~Before(row, Place(cur))
  <2>1. row \in Vectors(n) /\ \A i \in 1 .. n : row[i] \in 1 .. q.tables[i].rows
    BY RowFacts DEF Sizes
  <2>2. \A i \in 1 .. n : ~(row[i] < Place(cur)[i])
    BY <1>1, <1>4, <2>1
  <2> QED BY <2>1, <2>2 DEF Before, Vectors
<1> QED BY <1>1, <1>4, <1>5 DEF OnRows

\* What the columns give: the place, where every source is on a row.
LEMMA CombinationFacts ==
  ASSUME NEW q \in Queries, NEW cur, Running(cur, q)
  PROVE  /\ Combination(cur) \in Vectors(Len(q.tables))
         /\ Whole(Combination(cur)) => Combination(cur) = Place(cur)
         /\ OnRows(cur, q) => /\ Whole(Combination(cur)) /\ Combination(cur) = Place(cur)
                              /\ Place(cur) \in Combinations(q.tables)
<1> DEFINE n == Len(q.tables)
           row == Combination(cur)
<1>1. n \in Nat /\ DOMAIN q.tables = 1 .. n /\ \A i \in 1 .. n : q.tables[i].rows \in Nat
  BY QueryFacts
<1>2. /\ DOMAIN cur.provs = 1 .. n
      /\ Place(cur) \in Vectors(n)
      /\ \A i \in 1 .. n : cur.provs[i].table = q.tables[i] /\ cur.provs[i].at \in Nat
      /\ \A i \in 1 .. n : Place(cur)[i] = cur.provs[i].at
  BY <1>1, RunningFacts
<1>3. row = [i \in 1 .. n |-> RowOf(cur.provs[i])]
  BY <1>2 DEF Combination
<1>4. \A i \in 1 .. n : RowOf(cur.provs[i]) \in Nat
  BY <1>2 DEF RowOf, NoRow
<1>5. row \in Vectors(n) /\ \A i \in 1 .. n : row[i] = RowOf(cur.provs[i])
  BY <1>3, <1>4 DEF Vectors
<1> HIDE DEF row
<1>6. ASSUME Whole(row) PROVE row = Place(cur)
  <2>1. \A i \in 1 .. n : row[i] # NoRow
    BY <1>5, <1>6 DEF Whole, Vectors
  <2>2. \A i \in 1 .. n : row[i] = Place(cur)[i]
    BY <1>2, <1>5, <2>1 DEF RowOf
  <2> QED BY <1>2, <1>5, <2>2 DEF Vectors
<1>7. ASSUME OnRows(cur, q)
      PROVE  Whole(row) /\ row = Place(cur) /\ Place(cur) \in Combinations(q.tables)
  <2>1. \A i \in 1 .. n : OnRow(cur.provs[i])
    BY <1>1, <1>7 DEF OnRows
  <2>2. \A i \in 1 .. n : cur.provs[i].at \in 1 .. q.tables[i].rows
    BY <1>2, <2>1 DEF OnRow, Rows
  <2>3. \A i \in 1 .. n : row[i] = cur.provs[i].at
    BY <1>5, <2>1 DEF OnRow, RowOf
  <2>4. Whole(row)
    BY <1>1, <1>5, <2>2, <2>3 DEF Whole, NoRow, Vectors
  <2>5. Place(cur) \in Combinations(q.tables)
    BY <1>2, <2>2, RowFacts DEF Sizes
  <2> QED BY <1>6, <2>4, <2>5
<1> QED BY <1>5, <1>6, <1>7 DEF row

-----------------------------------------------------------------------------
(* The steps                                                               *)

LEMMA MatchingFacts ==
  ASSUME query \in Queries
  PROVE  /\ \A row \in Matching : row \in Combinations(query.tables) /\ Holds(row)
         /\ \A row \in Combinations(query.tables) : Holds(row) => row \in Matching
         /\ \A row \in Combinations(query.tables) : row \in Vectors(Len(query.tables)) /\ Whole(row)
         /\ [DOMAIN query.tables -> Nat] = Vectors(Len(query.tables))
<1>1. \A row \in Combinations(query.tables) :
        /\ row \in Vectors(Len(query.tables))
        /\ \A i \in 1 .. Len(query.tables) : row[i] \in 1 .. Sizes(query)[i]
  BY RowFacts
<1>2. \A row \in Combinations(query.tables) : Whole(row)
  BY <1>1 DEF Whole, Vectors, NoRow
<1> QED BY <1>1, <1>2, QueryFacts DEF Matching, Vectors

\* Without an exception the client goes on.
LEMMA Going ==
  ASSUME NEW o, NEW to, Goto(o, to)
  PROVE  /\ rs' = o.cur /\ query' = query
         /\ o.ret \in {Ok, Yes, No} => pc' = to
         /\ o.ret \in {Throw, Undefined} => pc' = "failed"
         /\ SomeFailed(o.cur) => tableFailed'
         /\ tableFailed => tableFailed'
         /\ tableFailed' => tableFailed \/ SomeFailed(o.cur)
         /\ tableFailed \in BOOLEAN => tableFailed' \in BOOLEAN
BY Told DEF Goto, SomeFailed

\* The driver failed and the client was told.
LEMMA Failing ==
  ASSUME CursorInv, NEW o, NEW to, Goto(o, to), UNCHANGED visited,
         o.ret \in {Throw, Undefined}, SomeFailed(o.cur)
  PROVE  CursorInv'
<1>1. pc' = "failed" /\ query' = query /\ tableFailed' /\ tableFailed' \in BOOLEAN
  BY Going DEF CursorInv, TypeInv
<1>2. TypeInv'
  BY <1>1 DEF CursorInv, TypeInv
<1>3. RunningInv' /\ StartInv'
  BY <1>1 DEF RunningInv, StartInv, Working
<1>4. OrderInv'
  BY <1>1 DEF CursorInv, OrderInv, Standing
<1>5. ProgressInv'
  BY <1>1 DEF ProgressInv, Clean
<1> QED BY <1>2, <1>3, <1>4, <1>5 DEF CursorInv

LEMMA StartsSound == Init => CursorInv
<1> SUFFICES ASSUME Init PROVE CursorInv
  OBVIOUS
<1>1. visited = <<>> /\ pc = "prepare" /\ tableFailed = FALSE /\ query \in Queries
  BY DEF Init
<1>2. TypeInv
  <2>1. <<>> \in Seq([DOMAIN query.tables -> Nat])
    OBVIOUS
  <2> QED BY <1>1, <2>1 DEF TypeInv
<1>3. RunningInv /\ StartInv
  BY <1>1 DEF RunningInv, StartInv, Working
<1>4. OrderInv
  BY <1>1 DEF OrderInv, Standing, Ordered
<1>5. ProgressInv
  BY <1>1 DEF ProgressInv, Standing
<1> QED BY <1>2, <1>3, <1>4, <1>5 DEF CursorInv

LEMMA PrepareStep == CursorInv /\ prepare => CursorInv'
<1> SUFFICES ASSUME CursorInv, prepare PROVE CursorInv'
  OBVIOUS
<1>1. pc = "prepare" /\ visited = <<>> /\ visited' = visited /\ query \in Queries
  BY DEF CursorInv, prepare, StartInv, TypeInv
<1>2. PICK o \in CurPrepare(CursorInit, query.tables, query.where) : Goto(o, "execute")
  BY DEF prepare
<1>3. CASE o.ret = Throw /\ SomeFailed(o.cur)
  BY <1>1, <1>2, <1>3, Failing
<1>4. CASE /\ o.ret = Ok /\ Running(o.cur, query)
           /\ \A i \in DOMAIN query.tables : Untouched(o.cur.provs[i], query.tables[i])
  <2>1. /\ rs' = o.cur /\ query' = query /\ pc' = "execute" /\ tableFailed' \in BOOLEAN
        /\ SomeFailed(o.cur) => tableFailed'
    BY <1>2, <1>4, Going DEF CursorInv, TypeInv
  <2>2. TypeInv'
    BY <1>1, <2>1 DEF CursorInv, TypeInv, Working
  <2>3. RunningInv' /\ StartInv'
    BY <1>1, <1>4, <2>1 DEF RunningInv, StartInv
  <2>4. OrderInv'
    BY <1>1, <2>1 DEF OrderInv, Standing, Ordered
  <2>5. ProgressInv'
    BY <2>1 DEF ProgressInv, Standing
  <2> QED BY <2>2, <2>3, <2>4, <2>5 DEF CursorInv
<1> QED BY <1>1, <1>2, <1>3, <1>4, Preparing

LEMMA ExecuteStep == CursorInv /\ execute => CursorInv'
<1> SUFFICES ASSUME CursorInv, execute PROVE CursorInv'
  OBVIOUS
<1>1. /\ pc = "execute" /\ visited = <<>> /\ visited' = visited /\ query \in Queries
      /\ Running(rs, query) /\ (SomeFailed(rs) => tableFailed)
      /\ \A i \in DOMAIN query.tables : Untouched(rs.provs[i], query.tables[i])
  BY DEF CursorInv, execute, StartInv, TypeInv, RunningInv, Working
<1> DEFINE c == [rs EXCEPT !.m_user_params = TRUE]
<1>2. PICK o \in CurExecute(rs) : Goto(o, "first")
  BY DEF execute
<1>3. o.cur = SetState(c, "OPEN") /\ o.ret = Ok
  BY <1>2 DEF CurExecute, Just, CurOutcome
<1>4. Running(c, query) /\ c.provs = rs.provs /\ c.m_user_params
  <2>1. rs \in Cursors(query)
    BY <1>1 DEF Running
  <2>2. c \in Cursors(query) /\ c.provs = rs.provs /\ c.m_where_node = rs.m_where_node
    BY <2>1 DEF Cursors
  <2>3. c.m_user_params = TRUE
    BY <2>1 DEF Cursors
  <2> QED BY <1>1, <2>2, <2>3 DEF Running
<1> HIDE DEF c
<1>5. /\ Running(o.cur, query) /\ o.cur.provs = rs.provs /\ IsOpen(o.cur)
      /\ o.cur.m_user_params
  BY <1>1, <1>3, <1>4, StateSet
<1>6. /\ rs' = o.cur /\ query' = query /\ pc' = "first" /\ tableFailed' \in BOOLEAN
      /\ SomeFailed(o.cur) => tableFailed'
  BY <1>2, <1>3, Going DEF CursorInv, TypeInv
<1>7. TypeInv'
  BY <1>1, <1>6 DEF CursorInv, TypeInv, Working
<1>8. RunningInv' /\ StartInv'
  BY <1>1, <1>5, <1>6 DEF RunningInv, StartInv
<1>9. OrderInv'
  BY <1>1, <1>6 DEF OrderInv, Standing, Ordered
<1>10. ProgressInv'
  BY <1>6 DEF ProgressInv, Standing
<1> QED BY <1>7, <1>8, <1>9, <1>10 DEF CursorInv

LEMMA FirstStep == CursorInv /\ first => CursorInv'
<1> SUFFICES ASSUME CursorInv, first PROVE CursorInv'
  OBVIOUS
<1>1. /\ pc = "first" /\ visited = <<>> /\ visited' = visited /\ query \in Queries
      /\ Running(rs, query) /\ (SomeFailed(rs) => tableFailed)
      /\ rs.m_user_params /\ IsOpen(rs)
      /\ \A i \in DOMAIN query.tables : Untouched(rs.provs[i], query.tables[i])
  BY DEF CursorInv, first, StartInv, TypeInv, RunningInv, Working
<1>2. PICK o \in CurFirst(rs) : Goto(o, "match")
  BY DEF first
<1>3. DOMAIN rs.provs = DOMAIN query.tables /\ DOMAIN query.tables # {}
  BY <1>1, RunningFacts, QueryFacts
<1>4. \A i \in DOMAIN rs.provs : ProvFirst(rs.provs[i]) # Throw
  BY <1>1, <1>3, Told DEF Untouched, Opened, ProvFirst
<1>5. PICK s \in {"POSITIONED", "EOF"} :
        /\ o.cur = SetState(rs, s) /\ o.ret = Ok
        /\ s = "EOF" => \A i \in DOMAIN rs.provs : ProvEof(rs.provs[i])
  BY <1>1, <1>2, <1>4 DEF CurFirst, Just, CurOutcome
<1>6. /\ Running(o.cur, query) /\ o.cur.provs = rs.provs /\ IsOpen(o.cur)
      /\ Ended(o.cur) <=> s = "EOF"
      /\ o.cur.m_user_params
  BY <1>1, <1>5, StateSet
<1>7. /\ rs' = o.cur /\ query' = query /\ pc' = "match" /\ tableFailed' \in BOOLEAN
      /\ SomeFailed(o.cur) => tableFailed'
      /\ tableFailed => tableFailed'
  BY <1>2, <1>5, Going DEF CursorInv, TypeInv
<1>8. TypeInv'
  BY <1>1, <1>7 DEF CursorInv, TypeInv, Working
<1>9. RunningInv' /\ StartInv'
  BY <1>1, <1>6, <1>7 DEF RunningInv, StartInv
<1>10. OrderInv'
  BY <1>1, <1>7 DEF OrderInv, Standing, Ordered, Precede
<1>11. ASSUME Clean' PROVE ~Ended(o.cur) /\ OnRows(o.cur, query) /\ {row \in Matching : Before(row, Place(o.cur))} = {}
  <2>1. ~SomeFailed(o.cur) /\ \A i \in DOMAIN query.tables : query.tables[i].rows # 0
    BY <1>7, <1>11 DEF Clean, EmptySource
  <2>2. \A i \in DOMAIN query.tables : AtFirst(o.cur.provs[i])
    BY <1>1, <1>3, <1>6, <2>1 DEF Untouched, SomeFailed
  <2>3. /\ OnRows(o.cur, query)
        /\ \A row \in Combinations(query.tables) : ~Before(row, Place(o.cur))
    BY <1>1, <1>6, <2>1, <2>2, PlaceIsFirst
  <2>4. ~Ended(o.cur)
    BY <1>3, <1>5, <1>6, <2>3 DEF OnRows, OnRow, ProvEof
  <2> QED BY <1>1, <2>3, <2>4, MatchingFacts
<1>12. Matching' = Matching
  BY <1>7 DEF Matching, Holds
<1>13. Range(visited') = {}
  BY <1>1 DEF Range
<1>14. ProgressInv'
  BY <1>7, <1>11, <1>12, <1>13 DEF ProgressInv, Standing
<1> QED BY <1>8, <1>9, <1>10, <1>14 DEF CursorInv

\* A row that is read before a place is one the place is not before.
LEMMA NotAfter ==
  ASSUME query \in Queries, NEW a \in Combinations(query.tables)
  PROVE  /\ {row \in Matching : ~Before(a, row)}
              = {row \in Matching : Before(row, a)} \union {row \in {a} : Holds(row)}
         /\ ~Before(a, a)
<1> DEFINE n == Len(query.tables)
<1>1. n \in Nat /\ a \in Vectors(n)
  BY MatchingFacts, QueryFacts
<1>2. ~Before(a, a)
  BY <1>1, BeforeIrreflexive
<1>3. ASSUME NEW row \in Matching
      PROVE  ~Before(a, row) <=> Before(row, a) \/ row = a
  <2>1. row \in Vectors(n)
    BY MatchingFacts
  <2>2. Before(row, a) => ~Before(a, row)
    BY <1>1, <1>2, <2>1, BeforeTransitive
  <2> QED BY <1>1, <1>2, <2>1, <2>2, BeforeTotal
<1>4. a \in Matching <=> Holds(a)
  BY MatchingFacts
<1> QED BY <1>2, <1>3, <1>4

LEMMA MatchStep == CursorInv /\ match => CursorInv'
<1> SUFFICES ASSUME CursorInv, match PROVE CursorInv'
  OBVIOUS
<1>1. /\ pc = "match" /\ visited' = visited /\ query \in Queries
      /\ Running(rs, query) /\ (SomeFailed(rs) => tableFailed)
      /\ rs.m_user_params /\ IsOpen(rs) /\ Standing
      /\ Ordered(visited) /\ Precede(visited, Place(rs))
  BY DEF CursorInv, match, OrderInv, Standing, TypeInv, RunningInv, Working
<1>2. PICK holds \in MatchCondition(rs, query.params) :
        Goto(CurOutcome(rs, holds), IF holds = Yes THEN "eof" ELSE "next")
  BY DEF match
<1> DEFINE o     == CurOutcome(rs, holds)
           where == query.where
           rows  == Combination(rs)
<1>3. o.cur = rs /\ o.ret = holds
  BY DEF CurOutcome
<1>4. /\ rs.m_where_node = where /\ GetUserParam(rs, query.params) = query.params
  BY <1>1 DEF Running, GetUserParam
<1>5. \/ where = NoCondition /\ holds = Yes
      \/ where # NoCondition /\ where.param /\ query.params = Null /\ holds = Throw
      \/ /\ where # NoCondition /\ ~(where.param /\ query.params = Null)
         /\ \/ holds \in {Yes, No, Throw} /\ \E i \in DOMAIN rows : rows[i] = NoRow
            \/ holds = Bool(rows \in where.holds)
  BY <1>2, <1>4 DEF MatchCondition
<1>6. holds \in {Yes, No, Throw}
  BY <1>5 DEF Bool
<1>7. /\ rs' = rs /\ query' = query /\ tableFailed' \in BOOLEAN
      /\ SomeFailed(rs) => tableFailed'
      /\ tableFailed => tableFailed'
      /\ holds = Yes => pc' = "eof"
      /\ holds = No => pc' = "next"
      /\ holds = Throw => pc' = "failed"
  BY <1>2, <1>3, <1>6, Going, Told DEF CursorInv, TypeInv
<1>8. TypeInv'
  BY <1>1, <1>6, <1>7 DEF CursorInv, TypeInv, Working
<1>9. RunningInv' /\ StartInv'
  BY <1>1, <1>6, <1>7 DEF RunningInv, StartInv, Working
<1>10. OrderInv'
  BY <1>1, <1>6, <1>7 DEF OrderInv, Standing, Precede, Reach
<1>11. Matching' = Matching /\ (\A row : Holds(row)' <=> Holds(row))
  BY <1>7 DEF Matching, Holds
<1>12. ASSUME Clean' PROVE ProgressInv'
  <2>1. Clean
    BY <1>7, <1>12 DEF Clean, EmptySource
  <2>2. /\ ~Ended(rs) /\ OnRows(rs, query)
        /\ Range(visited) = {row \in Matching : Before(row, Place(rs))}
    BY <1>1, <2>1 DEF CursorInv, ProgressInv
  <2>3. Whole(rows) /\ rows = Place(rs) /\ Place(rs) \in Combinations(query.tables)
    BY <1>1, <2>2, CombinationFacts
  <2>4. \A i \in DOMAIN rows : rows[i] # NoRow
    BY <2>3 DEF Whole
  <2> HIDE DEF rows, where
  <2>5. CASE holds = Yes
    <3>1. Holds(Place(rs))
      BY <1>5, <2>3, <2>4, <2>5, Told DEF Holds, Bool, where
    <3> QED BY <1>1, <1>7, <1>11, <2>2, <2>5, <3>1 DEF ProgressInv, Standing
  <2>6. CASE holds = No
    <3>1. ~Holds(Place(rs))
      BY <1>5, <2>3, <2>4, <2>6, Told DEF Holds, Bool, where
    <3>2. Range(visited) = {row \in Matching : ~Before(Place(rs), row)}
      BY <1>1, <2>2, <2>3, <3>1, NotAfter
    <3> QED BY <1>1, <1>7, <1>11, <2>2, <2>6, <3>2 DEF ProgressInv, Standing
  <2>7. CASE holds = Throw
    <3>1. where # NoCondition /\ where.param /\ query.params = Null
      BY <1>5, <2>4, <2>7, Told DEF Bool
    <3>2. Matching = {}
      BY <3>1 DEF Matching, Holds, where
    <3>3. Range(visited) = Matching
      BY <2>2, <3>2
    <3> QED BY <1>1, <1>7, <1>11, <2>7, <3>1, <3>3 DEF ProgressInv, Standing, where
  <2> QED BY <1>6, <2>5, <2>6, <2>7
<1>13. ProgressInv'
  BY <1>12 DEF ProgressInv
<1> QED BY <1>8, <1>9, <1>10, <1>13 DEF CursorInv

LEMMA NextStep == CursorInv /\ next => CursorInv'
<1> SUFFICES ASSUME CursorInv, next PROVE CursorInv'
  OBVIOUS
<1>1. /\ pc = "next" /\ visited' = visited /\ query \in Queries
      /\ Running(rs, query) /\ (SomeFailed(rs) => tableFailed)
      /\ rs.m_user_params /\ IsOpen(rs)
      /\ Ordered(visited) /\ Reach(visited, Place(rs))
      /\ visited \in Seq(Vectors(Len(query.tables)))
  BY MatchingFacts DEF CursorInv, next, OrderInv, TypeInv, RunningInv, Working
<1>2. PICK o \in InternalNext(rs) : Goto(o, IF o.ret = Yes THEN "match" ELSE "eof")
  BY DEF next
<1>3. /\ Running(o.cur, query) /\ IsOpen(o.cur) /\ o.cur.m_user_params
      /\ SomeFailed(rs) => SomeFailed(o.cur)
      /\ \/ o.ret = Yes /\ (Ended(o.cur) <=> Ended(rs)) /\ MovesOn(o.cur, rs, query)
         \/ /\ o.ret = No /\ Ended(o.cur)
            /\ ~SomeFailed(o.cur) =>
                 \A i \in 1 .. Len(query.tables) : query.tables[i].rows <= rs.provs[i].at
         \/ o.ret \in {Throw, Undefined} /\ SomeFailed(o.cur)
  BY <1>1, <1>2, Searching
<1>4. CASE o.ret \in {Throw, Undefined} /\ SomeFailed(o.cur)
  BY <1>1, <1>2, <1>4, Failing
<1>5. CASE o.ret \in {Yes, No}
  <2>1. /\ rs' = o.cur /\ query' = query /\ tableFailed' \in BOOLEAN
        /\ SomeFailed(o.cur) => tableFailed'
        /\ tableFailed => tableFailed'
        /\ o.ret = Yes => pc' = "match"
        /\ o.ret = No => pc' = "eof"
    BY <1>2, <1>5, Going, Told DEF CursorInv, TypeInv
  <2>2. TypeInv'
    BY <1>1, <1>5, <2>1 DEF CursorInv, TypeInv, Working
  <2>3. RunningInv' /\ StartInv'
    BY <1>3, <1>5, <2>1 DEF RunningInv, StartInv, Working
  <2>4. Matching' = Matching
    BY <2>1 DEF Matching, Holds
  <2>5. Clean' => /\ Clean /\ ~SomeFailed(o.cur) /\ ~Ended(rs) /\ OnRows(rs, query)
                  /\ \A i \in DOMAIN query.tables : query.tables[i].rows # 0
                  /\ Range(visited) = {row \in Matching : ~Before(Place(rs), row)}
    <3>1. Clean' => Clean /\ ~SomeFailed(o.cur)
      BY <2>1 DEF Clean, EmptySource
    <3>2. Clean => \A i \in DOMAIN query.tables : query.tables[i].rows # 0
      BY DEF Clean, EmptySource
    <3> QED BY <1>1, <3>1, <3>2 DEF CursorInv, ProgressInv
  <2>6. CASE o.ret = Yes
    <3>1. (Ended(o.cur) <=> Ended(rs)) /\ MovesOn(o.cur, rs, query) /\ pc' = "match"
      BY <1>3, <2>1, <2>6, Told
    <3>2. Precede(visited, Place(o.cur))
      <4>1. Before(Place(rs), Place(o.cur))
        BY <1>1, <1>3, <3>1, PlaceMoves
      <4>2. Place(rs) \in Vectors(Len(query.tables)) /\ Place(o.cur) \in Vectors(Len(query.tables))
        BY <1>1, <1>3, RunningFacts
      <4>3. \A i \in DOMAIN visited : visited[i] \in Vectors(Len(query.tables))
        BY <1>1
      <4> QED BY <1>1, <4>1, <4>2, <4>3, BeforeTransitive, QueryFacts DEF Precede, Reach
    <3>3. OrderInv'
      BY <1>1, <2>1, <3>1, <3>2 DEF OrderInv, Standing
    <3>4. ASSUME Clean' PROVE ProgressInv'
      <4>1. /\ OnRows(o.cur, query)
            /\ \A row \in Combinations(query.tables) :
                 Before(row, Place(o.cur)) <=> ~Before(Place(rs), row)
        BY <1>1, <1>3, <2>5, <3>1, <3>4, PlaceFollows
      <4>2. Range(visited) = {row \in Matching : Before(row, Place(o.cur))}
        BY <1>1, <2>5, <3>4, <4>1, MatchingFacts
      <4> QED BY <1>1, <2>1, <2>4, <2>5, <3>1, <3>4, <4>1, <4>2 DEF ProgressInv, Standing
    <3>5. ProgressInv'
      BY <3>4 DEF ProgressInv
    <3> QED BY <2>2, <2>3, <3>3, <3>5 DEF CursorInv
  <2>7. CASE o.ret = No
    <3>1. /\ Ended(o.cur) /\ pc' = "eof"
          /\ ~SomeFailed(o.cur) =>
               \A i \in 1 .. Len(query.tables) : query.tables[i].rows <= rs.provs[i].at
      BY <1>3, <2>1, <2>7, Told
    <3>2. OrderInv'
      BY <1>1, <2>1, <3>1 DEF OrderInv, Standing
    <3>3. ASSUME Clean' PROVE ProgressInv'
      <4>1. \A row \in Combinations(query.tables) : ~Before(Place(rs), row)
        BY <1>1, <2>5, <3>1, <3>3, PlaceIsLast
      <4>2. Range(visited) = Matching
        BY <1>1, <2>5, <3>3, <4>1, MatchingFacts
      <4> QED BY <1>1, <2>1, <2>4, <3>1, <4>2 DEF ProgressInv, Standing
    <3>4. ProgressInv'
      BY <3>3 DEF ProgressInv
    <3> QED BY <2>2, <2>3, <3>2, <3>4 DEF CursorInv
  <2> QED BY <1>5, <2>6, <2>7
<1> QED BY <1>3, <1>4, <1>5

LEMMA EofStep == CursorInv /\ eof => CursorInv'
<1> SUFFICES ASSUME CursorInv, eof PROVE CursorInv'
  OBVIOUS
<1>1. /\ pc = "eof" /\ visited' = visited /\ query \in Queries
      /\ Running(rs, query) /\ (SomeFailed(rs) => tableFailed)
      /\ rs.m_user_params /\ IsOpen(rs)
      /\ Ordered(visited) /\ (~Ended(rs) => Standing /\ Precede(visited, Place(rs)))
  BY DEF CursorInv, eof, OrderInv, TypeInv, RunningInv, Working, Standing
<1>2. CurEof(rs) = Bool(Ended(rs))
  BY <1>1 DEF CurEof, Ended
<1> DEFINE o == CurOutcome(rs, CurEof(rs))
<1>3. o.cur = rs /\ o.ret = CurEof(rs)
  BY DEF CurOutcome
<1>4. /\ Ended(rs) => CurEof(rs) = Yes
      /\ ~Ended(rs) => CurEof(rs) = No
  BY <1>2 DEF Bool
<1>5. Goto(o, IF CurEof(rs) = Yes THEN "close" ELSE "body")
  BY DEF eof
<1> HIDE DEF o
<1>6. /\ rs' = rs /\ query' = query /\ tableFailed' \in BOOLEAN
      /\ SomeFailed(rs) => tableFailed'
      /\ tableFailed => tableFailed'
      /\ Ended(rs) => pc' = "close"
      /\ ~Ended(rs) => pc' = "body"
  BY <1>3, <1>4, <1>5, Going, Told DEF CursorInv, TypeInv
<1>7. TypeInv'
  BY <1>1, <1>6 DEF CursorInv, TypeInv, Working
<1>8. RunningInv' /\ StartInv'
  BY <1>1, <1>6 DEF RunningInv, StartInv, Working
<1>9. OrderInv'
  BY <1>1, <1>6 DEF OrderInv, Standing
<1>10. Matching' = Matching /\ (\A row : Holds(row)' <=> Holds(row)) /\ (Clean' => Clean)
  BY <1>6 DEF Matching, Holds, Clean, EmptySource
<1>11. ProgressInv'
  <2>1. CASE Ended(rs)
    BY <1>1, <1>6, <1>10, <2>1 DEF CursorInv, ProgressInv, Standing
  <2>2. CASE ~Ended(rs)
    BY <1>1, <1>6, <1>10, <2>2 DEF CursorInv, ProgressInv, Standing
  <2> QED BY <2>1, <2>2
<1> QED BY <1>7, <1>8, <1>9, <1>11 DEF CursorInv

LEMMA BodyStep == CursorInv /\ body => CursorInv'
<1> SUFFICES ASSUME CursorInv, body PROVE CursorInv'
  OBVIOUS
<1> DEFINE n   == Len(query.tables)
           row == Combination(rs)
           a   == Place(rs)
<1>1. /\ pc = "body" /\ query \in Queries
      /\ Running(rs, query) /\ (SomeFailed(rs) => tableFailed)
      /\ rs.m_user_params /\ IsOpen(rs) /\ Standing
      /\ Ordered(visited) /\ Precede(visited, a)
      /\ visited \in Seq(Vectors(n))
  BY MatchingFacts DEF CursorInv, body, OrderInv, TypeInv, RunningInv, Working, Standing
<1>2. [i \in DOMAIN rs.provs |-> CurColumn(rs, i)[2]] = row
  <2>1. ASSUME NEW i \in DOMAIN rs.provs
        PROVE  CurColumn(rs, i)[2] = RowOf(rs.provs[i])
    <3>1. rs.provs[i].m_isopen
      BY <1>1, RunningFacts DEF Running, Opened
    <3>2. CurColumn(rs, i) = <<"value", RowOf(rs.provs[i])>>
      BY <3>1 DEF CurColumn, ProvColumn, Value
    <3> QED BY <3>2
  <2> QED BY <2>1 DEF Combination
<1>3. /\ Goto(CurOutcome(rs, Ok), "next")
      /\ visited' = IF Len(visited) < MaxVisited THEN Append(visited, row) ELSE visited
  BY <1>2 DEF body
<1>4. /\ rs' = rs /\ query' = query /\ tableFailed' \in BOOLEAN /\ pc' = "next"
      /\ SomeFailed(rs) => tableFailed'
      /\ tableFailed => tableFailed'
  <2>1. CurOutcome(rs, Ok).cur = rs /\ CurOutcome(rs, Ok).ret = Ok
    BY DEF CurOutcome
  <2> QED BY <1>3, <2>1, Going DEF CursorInv, TypeInv
<1>5. row \in Vectors(n) /\ a \in Vectors(n) /\ (Whole(row) => row = a) /\ n \in Nat
  BY <1>1, CombinationFacts, RunningFacts, QueryFacts
<1> HIDE DEF row, a, n
<1>6. /\ visited' \in Seq(Vectors(n)) /\ DOMAIN visited = 1 .. Len(visited) /\ Len(visited) \in Nat
      /\ \/ visited' = visited /\ ~(Len(visited) < MaxVisited)
         \/ /\ DOMAIN visited' = DOMAIN visited \union {Len(visited) + 1}
            /\ \A i \in DOMAIN visited : visited'[i] = visited[i]
            /\ visited'[Len(visited) + 1] = row
  <2>1. visited \in Seq(Vectors(n)) /\ Append(visited, row) \in Seq(Vectors(n))
    BY <1>1, <1>5
  <2>2. /\ Len(visited) \in Nat /\ DOMAIN visited = 1 .. Len(visited)
        /\ DOMAIN Append(visited, row) = 1 .. Len(visited) + 1
        /\ \A i \in 1 .. Len(visited) : Append(visited, row)[i] = visited[i]
        /\ Append(visited, row)[Len(visited) + 1] = row
    BY <2>1
  <2>3. 1 .. Len(visited) + 1 = (1 .. Len(visited)) \union {Len(visited) + 1}
    BY <2>2
  <2> QED BY <1>3, <2>1, <2>2, <2>3
<1>7. TypeInv'
  BY <1>1, <1>4, <1>6, MatchingFacts DEF CursorInv, TypeInv, Working, n
<1>8. RunningInv' /\ StartInv'
  BY <1>1, <1>4 DEF RunningInv, StartInv, Working
<1>9. Ordered(visited') /\ Reach(visited', a)
  <2>1. CASE visited' = visited
    BY <1>1, <2>1 DEF Precede, Reach
  <2>2. CASE /\ DOMAIN visited' = DOMAIN visited \union {Len(visited) + 1}
             /\ \A i \in DOMAIN visited : visited'[i] = visited[i]
             /\ visited'[Len(visited) + 1] = row
    <3> DEFINE s == visited'
    <3>1. Reach(s, a)
      BY <1>1, <1>5, <2>2 DEF Precede, Reach
    <3>2. ASSUME NEW i \in DOMAIN s, NEW j \in DOMAIN s, i < j, Whole(s[i]), Whole(s[j])
          PROVE  Before(s[i], s[j])
      <4>1. i \in DOMAIN visited
        BY <1>6, <2>2, <3>2
      <4>2. CASE j \in DOMAIN visited
        BY <1>1, <2>2, <3>2, <4>1, <4>2 DEF Ordered
      <4>3. CASE j = Len(visited) + 1
        BY <1>1, <1>5, <2>2, <3>2, <4>1, <4>3 DEF Precede
      <4> QED BY <2>2, <4>2, <4>3
    <3> QED BY <3>1, <3>2 DEF Ordered
  <2> QED BY <1>6, <2>1, <2>2
<1>10. OrderInv'
  BY <1>4, <1>9 DEF OrderInv, Standing, a
<1>11. Matching' = Matching
  BY <1>4 DEF Matching, Holds
<1>12. ASSUME Clean' PROVE ProgressInv'
  <2>1. Clean
    BY <1>4, <1>12 DEF Clean, EmptySource
  <2>2. /\ ~Ended(rs) /\ OnRows(rs, query) /\ Holds(a)
        /\ Range(visited) = {r \in Matching : Before(r, a)}
    BY <1>1, <2>1 DEF CursorInv, ProgressInv, a
  <2>3. row = a /\ a \in Combinations(query.tables)
    BY <1>1, <2>2, CombinationFacts DEF row, a
  <2>4. a \in Matching
    BY <1>1, <2>2, <2>3, MatchingFacts
  <2>5. /\ {r \in Matching : ~Before(a, r)} = {r \in Matching : Before(r, a)} \union {a}
        /\ ~Before(a, a)
    BY <1>1, <2>2, <2>3, NotAfter
  <2>6. Len(visited) < MaxVisited
    <3> DEFINE S == Combinations(query.tables)
    <3>1. IsFiniteSet(S) /\ Cardinality(S) <= MaxVisited /\ MaxVisited \in Nat
      BY <1>1, QueriesAssumption
    <3>2. \A i \in DOMAIN visited : visited[i] \in Matching /\ Before(visited[i], a)
      BY <2>2 DEF Range
    <3>3. \A i \in DOMAIN visited :
            /\ visited[i] \in S /\ Whole(visited[i]) /\ visited[i] \in Vectors(n)
            /\ visited[i] # a
      BY <1>1, <2>5, <3>2, MatchingFacts DEF n
    <3>4. visited \in Seq(S)
      BY <1>1, <3>3
    <3>5. ASSUME NEW i \in DOMAIN visited, NEW j \in DOMAIN visited, i < j
          PROVE  visited[i] # visited[j]
      <4>1. Before(visited[i], visited[j])
        BY <1>1, <3>3, <3>5 DEF Ordered
      <4> QED BY <1>5, <3>3, <4>1, BeforeIrreflexive
    <3>6. Len(visited) < Cardinality(S)
      BY <2>3, <3>1, <3>3, <3>4, <3>5, Room
    <3>7. Cardinality(S) \in Nat
      BY <3>1, FS_CardinalityType
    <3> QED BY <1>6, <3>1, <3>6, <3>7
  <2>7. Range(visited') = Range(visited) \union {a}
    BY <1>6, <2>3, <2>6 DEF Range
  <2>8. Range(visited') = {r \in Matching : ~Before(a, r)}
    BY <2>2, <2>5, <2>7
  <2> QED BY <1>1, <1>4, <1>11, <2>2, <2>8 DEF ProgressInv, Standing, a
<1>13. ProgressInv'
  BY <1>12 DEF ProgressInv
<1> QED BY <1>7, <1>8, <1>10, <1>13 DEF CursorInv

LEMMA CloseStep == CursorInv /\ close => CursorInv'
<1> SUFFICES ASSUME CursorInv, close PROVE CursorInv'
  OBVIOUS
<1>1. /\ pc' = "prepare" /\ visited' = <<>> /\ tableFailed' = FALSE
      /\ query' = query /\ query \in Queries
  BY DEF CursorInv, close, TypeInv
<1>2. TypeInv'
  <2>1. <<>> \in Seq([DOMAIN query.tables -> Nat])
    OBVIOUS
  <2> QED BY <1>1, <2>1 DEF TypeInv
<1>3. RunningInv' /\ StartInv'
  BY <1>1 DEF RunningInv, StartInv, Working
<1>4. OrderInv'
  BY <1>1 DEF OrderInv, Standing, Ordered
<1>5. ProgressInv'
  BY <1>1 DEF ProgressInv, Standing
<1> QED BY <1>2, <1>3, <1>4, <1>5 DEF CursorInv

LEMMA IdleStep == CursorInv /\ UNCHANGED vars => CursorInv'
BY DEF CursorInv, TypeInv, RunningInv, StartInv, OrderInv, ProgressInv, Standing, Clean,
       EmptySource, Matching, Holds, vars

\* What was visited is what matches up to the place, so the rest lies after it.
LEMMA VisitedSoFar == CursorInv => VisitsEachMatch
<1> SUFFICES ASSUME CursorInv PROVE VisitsEachMatch
  OBVIOUS
<1> DEFINE n == Len(query.tables)
<1>1. query \in Queries /\ n \in Nat /\ Ordered(visited)
  BY QueryFacts DEF CursorInv, TypeInv, OrderInv
<1>2. ASSUME Clean
      PROVE  /\ Range(visited) \subseteq Matching
             /\ \A row \in Matching \ Range(visited) :
                  pc # "close" /\ \A i \in DOMAIN visited : Before(visited[i], row)
             /\ pc = "failed" => query.where # NoCondition /\ query.where.param /\ query.params = Null
  <2>1. CASE pc \in {"prepare", "execute", "first"}
    <3>1. visited = <<>>
      BY <2>1 DEF CursorInv, StartInv
    <3>2. Range(visited) = {} /\ DOMAIN visited = {}
      BY <3>1 DEF Range
    <3> QED BY <2>1, <3>2
  <2>2. CASE Standing
    <3> DEFINE a == Place(rs)
    <3>1. /\ Range(visited) = {row \in Matching : Before(row, a)}
          /\ pc \in {"match", "body", "eof"}
      BY <1>2, <2>2 DEF CursorInv, ProgressInv, Standing
    <3>2. a \in Vectors(n)
      BY <1>1, <3>1, RunningFacts DEF CursorInv, RunningInv, Working
    <3> HIDE DEF a
    <3>3. ASSUME NEW row \in Matching \ Range(visited), NEW i \in DOMAIN visited
          PROVE  Before(visited[i], row)
      <4>1. visited[i] \in Matching /\ Before(visited[i], a)
        BY <3>1 DEF Range
      <4>2. row \in Vectors(n) /\ visited[i] \in Vectors(n)
        BY <1>1, <4>1, MatchingFacts
      <4>3. row = a \/ Before(a, row)
        BY <1>1, <3>1, <3>2, <4>2, BeforeTotal
      <4> QED BY <1>1, <3>2, <4>1, <4>2, <4>3, BeforeTransitive
    <3> QED BY <3>1, <3>3
  <2>3. CASE pc = "next"
    <3> DEFINE a == Place(rs)
    <3>1. Range(visited) = {row \in Matching : ~Before(a, row)}
      BY <1>2, <2>3 DEF CursorInv, ProgressInv
    <3>2. a \in Vectors(n)
      BY <1>1, <2>3, RunningFacts DEF CursorInv, RunningInv, Working
    <3> HIDE DEF a
    <3>3. ASSUME NEW row \in Matching \ Range(visited), NEW i \in DOMAIN visited
          PROVE  Before(visited[i], row)
      <4>1. visited[i] \in Matching /\ ~Before(a, visited[i]) /\ Before(a, row)
        BY <3>1 DEF Range
      <4>2. row \in Vectors(n) /\ visited[i] \in Vectors(n)
        BY <1>1, <4>1, MatchingFacts
      <4>3. visited[i] = a \/ Before(visited[i], a)
        BY <1>1, <3>2, <4>1, <4>2, BeforeTotal
      <4> QED BY <1>1, <3>2, <4>1, <4>2, <4>3, BeforeTransitive
    <3> QED BY <2>3, <3>1, <3>3
  <2>4. CASE pc \in {"close", "failed"} \/ (pc = "eof" /\ Ended(rs))
    <3>1. Range(visited) = Matching
      BY <1>2, <2>4 DEF CursorInv, ProgressInv
    <3>2. pc = "failed" => query.where # NoCondition /\ query.where.param /\ query.params = Null
      BY <1>2 DEF CursorInv, ProgressInv
    <3> QED BY <3>1, <3>2
  <2> QED BY <2>1, <2>2, <2>3, <2>4 DEF CursorInv, TypeInv, Working, Standing
<1> QED BY <1>1, <1>2 DEF VisitsEachMatch, Ordered, Clean

LEMMA CursorGoesOn == CursorInv /\ [Next]_vars => CursorInv'
BY PrepareStep, ExecuteStep, FirstStep, MatchStep, NextStep, EofStep, BodyStep, CloseStep, IdleStep
   DEF Next

-----------------------------------------------------------------------------
(* The theorems                                                            *)

\* The sources stay open, the rows visited stay ordered, and while nothing went
\* wrong they are the rows that match up to the place of the cursor
\* (SqlCursor::first, next and internalNext).
THEOREM CursorInductive == Spec => []CursorInv
<1> QED BY StartsSound, CursorGoesOn, PTL DEF Spec

\* The loop over a SqlCursor sees every row of the product that meets the
\* condition, once and in the order of nested loops, for any sources, any
\* condition and any parameter (SqlCursor::next and internalNext over
\* SDIDataProvider_libsdi).
THEOREM EachMatchVisited == Spec => []VisitsEachMatch
<1>1. CursorInv => VisitsEachMatch
  BY VisitedSoFar
<1> QED BY <1>1, CursorInductive, PTL
=============================================================================
