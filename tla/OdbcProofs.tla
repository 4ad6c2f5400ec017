----------------------------- MODULE OdbcProofs -----------------------------
(***************************************************************************)
(* What an OdbcDbc_libodbc and its statement promise to a client that      *)
(* keeps the protocol, for every driver, any number of rows and columns    *)
(* and every LOB: no call uses what is gone, the buffers are those of the  *)
(* driver's row, a LOB is read whole, and changes are settled as asked.    *)
(***************************************************************************)
EXTENDS OdbcConnection, WellFoundedInduction, TLAPS

Handles ==
  [live : BOOLEAN, text : Queries \union {NoQuery}, cursor : {"none", "open", "waits"},
   at : Nat, bound : SUBSET (1 .. Width), got : Nat, part : Nat, failed : BOOLEAN]

Objects ==
  [m_cursorstate : SUBSET CursorFlags, m_current_tuple : Nat,
   m_column_accessors : SUBSET (0 .. Width), m_is_bound : SUBSET (1 .. Width),
   buf : [1 .. Width -> Nat], lob : [stream : Nat, cache : Nat, has : Nat]]

Conns ==
  [autocommit : BOOLEAN, work : {"none", "pending", "kept", "undone"},
   asked : {"none", "kept", "undone"}]

Connections ==
  [alive : BOOLEAN, m_isConnected : BOOLEAN, deferred : BOOLEAN, ext : SUBSET Extensions,
   needLength : BOOLEAN]

Statements ==
  [alive : BOOLEAN, m_cursorstate : SUBSET CursorFlags, m_resultsets : Seq(Objects),
   m_params : Params]

-----------------------------------------------------------------------------
(* The invariant                                                           *)

\* LOBs are left at the driver only by one that can do everything.
Able(d) == d \in Connections /\ (d.deferred => d.ext = Extensions)

\* The columns that are bound do not keep the driver from giving column c.
Reachable(g, d, c) ==
  /\ c \in g.bound => "BOUND" \in d.ext
  /\ "ANY_COLUMN" \in d.ext \/ \A b \in g.bound : b < c

\* The columns that are asked for in every row.
Unbound(r) == r.m_column_accessors \ ({0} \union r.m_is_bound)

\* The accessors of an open resultset and the columns that are bound for them.
Attached(r, g, d) ==
  /\ Lob \notin r.m_is_bound
  /\ g.bound \subseteq r.m_is_bound \union {Lob}
  /\ \A c \in Unbound(r) : Reachable(g, d, c)
  /\ Lob \notin r.m_column_accessors => r.lob = NoLob

\* A state is a prefix of the ranked ones.
Prefixed(r) ==
  /\ ~IsBad(r)
  /\ IsEof(r) => Positioned(r)
  /\ Positioned(r) => IsOpen(r)

Live(r) == Positioned(r) /\ ~IsEof(r)

\* Where the driver's cursor is, while it is open.
Placed(r, g) ==
  IF IsEof(r) THEN g.at = Behind
  ELSE IF Positioned(r) THEN g.at = r.m_current_tuple /\ g.at \in 1 .. MaxRows
  ELSE r.m_current_tuple = 0 => g.at = NoRow

\* The stream and the cache of the LOB are those of row k.
LobOf(r, d, k) ==
  /\ {r.lob.stream, r.lob.cache} \subseteq {NoRow, k}
  /\ r.lob.cache # NoRow => r.lob.has = LobParts[k]
  /\ ~d.deferred /\ Lob \in r.m_column_accessors => r.lob.cache = k

\* The buffers are those of row k.
OfRow(r, d, k) ==
  /\ \A c \in r.m_column_accessors \ {0, Lob} : r.buf[c] = k
  /\ LobOf(r, d, k)

ResultFine(r, g, d) ==
  /\ r \in Objects /\ Prefixed(r)
  /\ IF IsOpen(r)
       THEN /\ Attached(r, g, d)
            /\ g.cursor = "open" => Placed(r, g)
            /\ Live(r) /\ ~g.failed => g.cursor = "open" /\ OfRow(r, d, g.at)
     ELSE g.bound = {}

\* A handle between two calls.
HandleFine(g) == g \in Handles /\ g.cursor # "waits"

\* A statement that keeps the protocol has one resultset or none.
StmtFine(s, g, d) ==
  /\ s \in Statements /\ s.m_params # "broken"
  /\ HandleFine(g)
  /\ IF s.m_resultsets = <<>> THEN g.bound = {} /\ s.m_params # "spent"
     ELSE Len(s.m_resultsets) = 1 /\ ResultFine(s.m_resultsets[1], g, d)
  /\ s.alive => g.live

\* Changes are settled as the client asked.
Settled(k) == k \in Conns /\ (k.work \in {"kept", "undone"} => k.asked = k.work)

OdbcInv ==
  /\ ret = Ok
  /\ Able(dbc)
  /\ Settled(conn)
  /\ StmtFine(st, h, dbc)
  /\ st.alive => dbc.alive /\ dbc.m_isConnected
  /\ ~st.alive => st.m_resultsets = <<>>

-----------------------------------------------------------------------------
(* The cursor states                                                       *)

LEMMA Masks ==
  /\ Mask("PREPARED") = {"PREPARED"}
  /\ Mask("OPEN") = {"PREPARED", "OPEN"}
  /\ Mask("POSITIONED") = {"PREPARED", "OPEN", "POSITIONED"}
  /\ Mask("EOF") = {"PREPARED", "OPEN", "POSITIONED", "EOF"}
<1>1. ASSUME NEW i \in 1 .. 4
      PROVE  Mask(Ranked[i]) = {Ranked[j] : j \in 1 .. i}
  <2>1. \A r \in 1 .. 4 : Ranked[r] = Ranked[i] => r = i
    BY DEF Ranked
  <2> QED BY <2>1 DEF Mask
<1>2. /\ Ranked[1] = "PREPARED" /\ Ranked[2] = "OPEN" /\ Ranked[3] = "POSITIONED"
      /\ Ranked[4] = "EOF"
  BY DEF Ranked
<1>3. Mask("PREPARED") = {"PREPARED"}
  BY <1>1, <1>2, 1 .. 1 = {1}
<1>4. Mask("OPEN") = {"PREPARED", "OPEN"}
  BY <1>1, <1>2, 1 .. 2 = {1, 2}
<1>5. Mask("POSITIONED") = {"PREPARED", "OPEN", "POSITIONED"}
  BY <1>1, <1>2, 1 .. 3 = {1, 2, 3}
<1>6. Mask("EOF") = {"PREPARED", "OPEN", "POSITIONED", "EOF"}
  BY <1>1, <1>2, 1 .. 4 = {1, 2, 3, 4}
<1> QED BY <1>3, <1>4, <1>5, <1>6

\* All of a resultset but its state.
Alike(q, r) ==
  /\ q \in Objects
  /\ q.m_current_tuple = r.m_current_tuple /\ q.m_column_accessors = r.m_column_accessors
  /\ q.m_is_bound = r.m_is_bound /\ q.buf = r.buf /\ q.lob = r.lob

LEMMA StateSet ==
  ASSUME NEW r \in Objects, NEW s \in CursorFlags \ {"BAD"}
  PROVE  Alike(SetState(r, s), r) /\ SetState(r, s).m_cursorstate = Mask(s)
<1> DEFINE m == SetCursorState(r.m_cursorstate, s)
<1>1. m = Mask(s) /\ m \in SUBSET CursorFlags
  BY Masks DEF SetCursorState, CursorFlags
<1>2. SetState(r, s) = [r EXCEPT !.m_cursorstate = m]
  BY DEF SetState
<1> HIDE DEF m
<1> QED BY <1>1, <1>2 DEF Objects, Alike

\* What the states say.
LEMMA States ==
  ASSUME NEW r \in Objects
  PROVE  /\ LET q == SetState(r, "PREPARED")
            IN  ~IsOpen(q) /\ ~Positioned(q) /\ ~IsEof(q) /\ ~IsBad(q) /\ Alike(q, r)
         /\ LET q == SetState(r, "OPEN")
            IN  IsOpen(q) /\ ~Positioned(q) /\ ~IsEof(q) /\ ~IsBad(q) /\ Alike(q, r)
         /\ LET q == SetState(r, "POSITIONED")
            IN  IsOpen(q) /\ Positioned(q) /\ ~IsEof(q) /\ ~IsBad(q) /\ Alike(q, r)
         /\ LET q == SetState(r, "EOF")
            IN  IsOpen(q) /\ Positioned(q) /\ IsEof(q) /\ ~IsBad(q) /\ Alike(q, r)
<1>1. {"PREPARED", "OPEN", "POSITIONED", "EOF"} \subseteq CursorFlags \ {"BAD"}
  BY DEF CursorFlags
<1>2. SetState(r, "PREPARED").m_cursorstate = {"PREPARED"} /\ Alike(SetState(r, "PREPARED"), r)
  BY <1>1, StateSet, Masks
<1>3. SetState(r, "OPEN").m_cursorstate = {"PREPARED", "OPEN"} /\ Alike(SetState(r, "OPEN"), r)
  BY <1>1, StateSet, Masks
<1>4. /\ SetState(r, "POSITIONED").m_cursorstate = {"PREPARED", "OPEN", "POSITIONED"}
      /\ Alike(SetState(r, "POSITIONED"), r)
  BY <1>1, StateSet, Masks
<1>5. /\ SetState(r, "EOF").m_cursorstate = {"PREPARED", "OPEN", "POSITIONED", "EOF"}
      /\ Alike(SetState(r, "EOF"), r)
  BY <1>1, StateSet, Masks
<1> QED BY <1>2, <1>3, <1>4, <1>5 DEF IsOpen, Positioned, IsEof, IsBad

LEMMA Words ==
  /\ GoesOn(None) /\ GoesOn(Ok) /\ GoesOn(Yes) /\ GoesOn(No) /\ GoesOn(Throw)
  /\ \A v : GoesOn(Value(v)) /\ Value(v) # Throw
  /\ ~GoesOn(Abort) /\ ~GoesOn(Undefined)
  /\ Ok # Throw /\ Ok # Abort /\ Ok # Undefined /\ Yes # No /\ Throw # Yes /\ Throw # No
  /\ Ok # Yes /\ Ok # No /\ Throw # Abort /\ Throw # Undefined
  /\ \A b : GoesOn(Bool(b))
BY DEF GoesOn, None, Ok, Yes, No, Throw, Value, Abort, Undefined, Bool

\* Induction over the natural numbers, without a predicate as a parameter.
LEMMA LeastMember ==
  ASSUME NEW T, T \subseteq Nat, T # {}
  PROVE  \E x \in T : \A y \in T : x <= y
<1> DEFINE R == {ss \in Nat \X Nat : ss[1] < ss[2]}
<1>1. IsWellFoundedOn(R, Nat)
  BY NatLessThanWellFounded DEF OpToRel
<1> HIDE DEF R
<1>2. PICK x \in T : \A y \in T : ~(<<y, x>> \in R)
  BY <1>1, WFMin
<1>3. ASSUME NEW y \in T PROVE x <= y
  <2>1. y < x => <<y, x>> \in R
    BY DEF R
  <2> QED BY <1>2, <2>1
<1> QED BY <1>2, <1>3

-----------------------------------------------------------------------------
(* The driver's data                                                       *)

\* A handle that was asked for data: what lost a row stays so until the next.
Queried(k, g) ==
  /\ k \in Handles
  /\ k.live = g.live /\ k.text = g.text /\ k.cursor = g.cursor /\ k.at = g.at
  /\ k.bound = g.bound
  /\ g.failed => k.failed

\* How many parts of a column were given, and how many there are.
Given(g, c) == IF g.got = c THEN g.part ELSE 0
Parts(g, c) == IF c = Lob THEN LobParts[g.at] ELSE 1

LEMMA QueriedAgain ==
  ASSUME NEW f, NEW g, NEW k, Queried(g, f), Queried(k, g)
  PROVE  Queried(k, f)
BY DEF Queried

LEMMA QueriedSame == ASSUME NEW g \in Handles PROVE Queried(g, g)
BY DEF Queried

\* What a request gives: a part, the end, or an error.
Answers(y, g, e, c) ==
  /\ Queried(y[1], g) /\ y[1].got \in {g.got, c}
  /\ \/ y[2] = "ERROR" /\ (MayGet(g, e, c) => y[1].failed)
     \/ /\ y[2] = "PART" /\ MayGet(g, e, c) /\ Given(g, c) # Parts(g, c)
        /\ y[1].got = c /\ y[1].part = Given(g, c) + 1 /\ y[1].failed = g.failed
     \/ y[2] = "NO_DATA" /\ Given(g, c) = Parts(g, c)

LEMMA Getting ==
  ASSUME NEW g \in Handles, NEW e, NEW c \in 1 .. Width, NEW y \in Gets(g, e, c)
  PROVE  Answers(y, g, e, c)
<1> DEFINE p    == Given(g, c)
           a    == [g EXCEPT !.got = c]
           here == [a EXCEPT !.part = p]
           more == [here EXCEPT !.part = p + 1]
           lost == [g EXCEPT !.failed = TRUE]
<1>1. p \in Nat /\ c \in Nat /\ Width \in Nat
  BY WidthAssumption DEF Given, Handles
<1>2. /\ Queried(lost, g) /\ lost.failed /\ lost.got = g.got
  <2>1. lost.failed = TRUE
    BY DEF Handles
  <2>2. lost \in Handles
    BY DEF Handles
  <2>3. /\ lost.live = g.live /\ lost.text = g.text /\ lost.cursor = g.cursor /\ lost.at = g.at
        /\ lost.bound = g.bound /\ lost.got = g.got
    BY DEF Handles
  <2> HIDE DEF lost
  <2> QED BY <2>1, <2>2, <2>3 DEF Queried
<1>3. a \in Handles /\ Queried(a, g) /\ a.got = c /\ a.failed = g.failed
  BY <1>1 DEF Handles, Queried
<1>4. /\ Queried(here, g) /\ here \in Handles /\ here.got = c /\ here.part = p
      /\ here.failed = g.failed
  BY <1>1, <1>3 DEF Handles, Queried
<1>5. Queried(more, g) /\ more.got = c /\ more.part = p + 1 /\ more.failed = g.failed
  <2> HIDE DEF p, here
  <2>1. /\ more \in Handles /\ more.live = here.live /\ more.text = here.text
        /\ more.cursor = here.cursor /\ more.at = here.at /\ more.bound = here.bound
        /\ more.got = here.got /\ more.failed = here.failed /\ more.part = p + 1
    BY <1>1, <1>4 DEF Handles
  <2> HIDE DEF more
  <2> QED BY <1>4, <2>1 DEF Queried
<1>6. [g EXCEPT !.got = c, !.part = IF g.got = c THEN @ ELSE 0] = here
  BY DEF Given, Handles
<1>7. [here EXCEPT !.part = @ + 1] = more
  BY <1>4 DEF Handles
<1> HIDE DEF p, a, here, more, lost
<1>8. \/ y = <<g, "ERROR">> /\ ~MayGet(g, e, c)
      \/ y = <<lost, "ERROR">>
      \/ here.part = Parts(g, c) /\ y = <<here, "NO_DATA">>
      \/ here.part # Parts(g, c) /\ y = <<more, "PART">> /\ MayGet(g, e, c)
  BY <1>6, <1>7 DEF Gets, Parts, lost
<1>9. CASE y = <<g, "ERROR">> /\ ~MayGet(g, e, c)
  BY <1>9, QueriedSame DEF Answers
<1>10. CASE y = <<lost, "ERROR">>
  BY <1>2, <1>10 DEF Answers
<1>11. CASE here.part = Parts(g, c) /\ y = <<here, "NO_DATA">>
  BY <1>4, <1>11 DEF Answers, p
<1>12. CASE here.part # Parts(g, c) /\ y = <<more, "PART">> /\ MayGet(g, e, c)
  BY <1>4, <1>5, <1>12 DEF Answers, p
<1> QED BY <1>8, <1>9, <1>10, <1>11, <1>12

\* A request does not keep the driver from giving more of the same column.
LEMMA MayGoOn ==
  ASSUME NEW g, NEW e, NEW c \in Nat, MayGet(g, e, c), NEW k, Queried(k, g),
         k.got \in {g.got, c}
  PROVE  MayGet(k, e, c)
BY DEF MayGet, Queried, OnRow

\* The handles after one part more.
NextReads(gs, d) ==
  UNION {{x[1] : x \in {y \in Gets(g, d.ext, Lob) : y[2] = "PART"}} : g \in gs}

\* The handles after each number of parts up to n.
Reads(f, g, d, n) ==
  f = [i \in 0 .. n |-> IF i = 0 THEN {g} ELSE NextReads(f[i - 1], d)]

LEMMA ReadsDefined ==
  ASSUME NEW g, NEW d
  PROVE  \A n \in Nat : \E f : Reads(f, g, d, n)
<1> DEFINE T == {n \in Nat : ~\E f : Reads(f, g, d, n)}
<1>1. SUFFICES ASSUME T # {} PROVE FALSE
  OBVIOUS
<1>2. T \subseteq Nat
  OBVIOUS
<1> HIDE DEF T
<1>3. PICK m \in T : \A y \in T : m <= y
  BY <1>1, <1>2, LeastMember
<1>4. m \in Nat /\ ~\E f : Reads(f, g, d, m)
  BY <1>3 DEF T
<1>5. CASE m = 0
  <2> DEFINE f == [i \in 0 .. m |-> {g}]
  <2>1. \A i \in 0 .. m : i = 0
    BY <1>5
  <2>2. f = [i \in 0 .. m |-> IF i = 0 THEN {g} ELSE NextReads(f[i - 1], d)]
    BY <2>1
  <2>3. Reads(f, g, d, m)
    BY <2>2 DEF Reads
  <2> QED BY <1>4, <2>3
<1>6. CASE m # 0
  <2>1. m - 1 \in Nat /\ ~(m <= m - 1) /\ m \in 0 .. m
    BY <1>4, <1>6
  <2>2. m - 1 \notin T
    BY <1>3, <2>1
  <2>3. PICK f : Reads(f, g, d, m - 1)
    BY <2>1, <2>2 DEF T
  <2> DEFINE e == [i \in 0 .. m |-> IF i = m THEN NextReads(f[m - 1], d) ELSE f[i]]
  <2>4. \A i \in 0 .. m : i # m => i \in 0 .. m - 1
    BY <1>4
  <2>5. \A i \in 0 .. m : i # 0 => i - 1 \in 0 .. m /\ i - 1 # m /\ i - 1 \in 0 .. m - 1
    BY <1>4
  <2>6. \A i \in 0 .. m : e[i] = IF i = m THEN NextReads(f[m - 1], d) ELSE f[i]
    OBVIOUS
  <2>7. e = [i \in 0 .. m |-> e[i]]
    OBVIOUS
  <2> HIDE DEF e
  <2>8. ASSUME NEW i \in 0 .. m
        PROVE  e[i] = IF i = 0 THEN {g} ELSE NextReads(e[i - 1], d)
    <3>1. CASE i = m
      <4>1. e[i - 1] = f[m - 1]
        BY <1>6, <2>5, <2>6, <3>1
      <4> QED BY <1>6, <2>6, <3>1, <4>1
    <3>2. CASE i # m
      <4>1. e[i] = f[i] /\ i \in 0 .. m - 1
        BY <2>4, <2>6, <3>2
      <4>2. f[i] = IF i = 0 THEN {g} ELSE NextReads(f[i - 1], d)
        BY <2>3, <4>1 DEF Reads
      <4>3. i # 0 => e[i - 1] = f[i - 1]
        BY <2>5, <2>6
      <4> QED BY <4>1, <4>2, <4>3
    <3> QED BY <3>1, <3>2
  <2>9. Reads(e, g, d, m)
    BY <2>7, <2>8 DEF Reads
  <2> QED BY <1>4, <2>9
<1> QED BY <1>5, <1>6

\* A handle after i parts of the LOB.
Partly(k, g, i) ==
  /\ Queried(k, g) /\ k.got \in {g.got, Lob} /\ k.failed = g.failed
  /\ Given(k, Lob) = Given(g, Lob) + i

LEMMA ReadsPartly ==
  ASSUME NEW g \in Handles, NEW d, NEW n \in Nat, NEW f, Reads(f, g, d, n)
  PROVE  \A i \in 0 .. n : \A k \in f[i] : Partly(k, g, i)
<1> DEFINE T == {i \in 0 .. n : ~\A k \in f[i] : Partly(k, g, i)}
<1>1. SUFFICES ASSUME T # {} PROVE FALSE
  OBVIOUS
<1>2. T \subseteq Nat
  OBVIOUS
<1> HIDE DEF T
<1>3. PICK m \in T : \A y \in T : m <= y
  BY <1>1, <1>2, LeastMember
<1>4. PICK k \in f[m] : ~Partly(k, g, m)
  BY <1>3 DEF T
<1>5. m \in 0 .. n
  BY <1>3 DEF T
<1>6. f[m] = IF m = 0 THEN {g} ELSE NextReads(f[m - 1], d)
  BY <1>5 DEF Reads
<1>7. Given(g, Lob) \in Nat
  BY DEF Given, Handles
<1>8. CASE m = 0
  <2>1. k = g
    BY <1>4, <1>6, <1>8
  <2>2. Given(g, Lob) = Given(g, Lob) + 0
    BY <1>7
  <2> QED BY <1>4, <1>8, <2>1, <2>2, QueriedSame DEF Partly
<1>9. CASE m # 0
  <2>1. m - 1 \in 0 .. n /\ ~(m <= m - 1)
    BY <1>5, <1>9
  <2>2. \A j \in f[m - 1] : Partly(j, g, m - 1)
    BY <1>3, <2>1 DEF T
  <2>3a. PICK j \in f[m - 1] : \E y \in Gets(j, d.ext, Lob) : k = y[1] /\ y[2] = "PART"
    BY <1>4, <1>6, <1>9 DEF NextReads
  <2>3. PICK y \in Gets(j, d.ext, Lob) : k = y[1] /\ y[2] = "PART"
    BY <2>3a
  <2>4. Partly(j, g, m - 1) /\ j \in Handles
    BY <2>2, <2>3a DEF Partly, Queried
  <2>5. Lob \in 1 .. Width
    BY LibraryAssumption, WidthAssumption
  <2>6. Answers(y, j, d.ext, Lob)
    BY <2>3, <2>4, <2>5, Getting
  <2>7. /\ Queried(k, j) /\ k.got = Lob /\ k.part = Given(j, Lob) + 1 /\ k.failed = j.failed
    BY <2>3, <2>6 DEF Answers
  <2>8. Given(k, Lob) = Given(g, Lob) + m
    <3>1. Given(k, Lob) = Given(j, Lob) + 1
      BY <2>7 DEF Given
    <3>2. Given(j, Lob) = Given(g, Lob) + (m - 1)
      BY <2>4 DEF Partly
    <3> QED BY <1>5, <1>7, <3>1, <3>2
  <2>9. Queried(k, g)
    BY <2>4, <2>7, QueriedAgain DEF Partly
  <2> QED BY <1>4, <2>4, <2>7, <2>8, <2>9 DEF Partly
<1> QED BY <1>8, <1>9

\* The LOB of row k, of which n parts were read.
Cached(r, k, n) == [r EXCEPT !.lob = [stream |-> k, cache |-> k, has |-> n]]

PartsLeft(g) == IF g.at \in 1 .. MaxRows THEN LobParts[g.at] ELSE 0

\* The cache is filled with all there is, or the driver failed.
Fills(x, r, g, d) ==
  /\ x.ret = Ok /\ Queried(x.h, g) /\ x.h.got \in {g.got, Lob}
  /\ \E n \in Nat :
       /\ x.rs = Cached(r, g.at, n)
       /\ MayGet(g, d.ext, Lob) /\ Given(g, Lob) = 0 /\ ~x.h.failed => n = LobParts[g.at]

LEMMA Filling ==
  ASSUME NEW r, NEW g \in Handles, NEW d, NEW x \in FillCache(r, g, d)
  PROVE  Fills(x, r, g, d)
<1> DEFINE f == CHOOSE e : Reads(e, g, d, PartsLeft(g))
<1>1. PartsLeft(g) \in Nat
  BY LibraryAssumption DEF PartsLeft
<1>2. (IF g.at \in 1 .. MaxRows THEN 0 .. LobParts[g.at] ELSE {0}) = 0 .. PartsLeft(g)
  BY DEF PartsLeft
<1>3. Reads(f, g, d, PartsLeft(g))
  BY <1>1, ReadsDefined
<1>4. \E n \in 0 .. PartsLeft(g) : \E k \in f[n] : \E y \in Gets(k, d.ext, Lob) :
         y[2] # "PART" /\ x = Outcome(Cached(r, g.at, n), y[1], Ok)
  <2> DEFINE left == IF g.at \in 1 .. MaxRows THEN 0 .. LobParts[g.at] ELSE {0}
             e    == CHOOSE e : e = [i \in left |-> IF i = 0 THEN {g} ELSE NextReads(e[i - 1], d)]
  <2>1. x \in UNION {UNION {{Outcome(Cached(r, g.at, n), y[1], Ok) :
                               y \in {z \in Gets(k, d.ext, Lob) : z[2] # "PART"}} : k \in e[n]} :
                       n \in left}
    BY DEF FillCache, NextReads, Cached
  <2>2. left = 0 .. PartsLeft(g)
    BY <1>2
  <2>3. e = f
    BY <2>2 DEF Reads
  <2> HIDE DEF left, e, f
  <2> QED BY <2>1, <2>2, <2>3
<1>4a. \A i \in 0 .. PartsLeft(g) : \A k \in f[i] : Partly(k, g, i)
  <2> HIDE DEF f
  <2> QED BY <1>1, <1>3, ReadsPartly
<1> HIDE DEF f
<1>5a. PICK n \in 0 .. PartsLeft(g) : \E k \in f[n] : \E y \in Gets(k, d.ext, Lob) :
         y[2] # "PART" /\ x = Outcome(Cached(r, g.at, n), y[1], Ok)
  BY <1>4
<1>5b. PICK k \in f[n] : \E y \in Gets(k, d.ext, Lob) :
         y[2] # "PART" /\ x = Outcome(Cached(r, g.at, n), y[1], Ok)
  BY <1>5a
<1>5. PICK y \in Gets(k, d.ext, Lob) :
         y[2] # "PART" /\ x = Outcome(Cached(r, g.at, n), y[1], Ok)
  BY <1>5b
<1>6. Partly(k, g, n) /\ k \in Handles
  BY <1>4a, <1>5a, <1>5b DEF Partly, Queried
<1>7. Lob \in 1 .. Width
  BY LibraryAssumption, WidthAssumption
<1>8. Answers(y, k, d.ext, Lob)
  BY <1>6, <1>7, Getting
<1>9. /\ x.ret = Ok /\ x.h = y[1] /\ x.rs = Cached(r, g.at, n) /\ n \in Nat
  BY <1>5 DEF Outcome
<1>10. Queried(x.h, g) /\ x.h.got \in {g.got, Lob}
  BY <1>6, <1>8, <1>9, QueriedAgain DEF Partly, Answers
<1>11. ASSUME MayGet(g, d.ext, Lob), Given(g, Lob) = 0, ~x.h.failed
       PROVE  n = LobParts[g.at]
  <2>1. MayGet(k, d.ext, Lob)
    BY <1>6, <1>7, <1>11, MayGoOn DEF Partly
  <2>2. Given(k, Lob) = Parts(k, Lob)
    BY <1>5, <1>8, <1>9, <1>11, <2>1 DEF Answers
  <2>3. k.at = g.at /\ Given(k, Lob) = n
    BY <1>6, <1>11 DEF Partly, Queried
  <2> QED BY <2>2, <2>3 DEF Parts
<1> QED BY <1>9, <1>10, <1>11 DEF Fills

-----------------------------------------------------------------------------
(* The accessors of a row                                                  *)

\* A step that is made when the step before it did not throw.
NextRefresh(outs, d, c) ==
  After(outs, LAMBDA q, k : IF c \in q.m_column_accessors THEN Refresh(q, k, d, c)
                            ELSE Only(q, k, Ok))

LEMMA AfterRefresh ==
  ASSUME NEW outs, NEW d, NEW c, NEW x \in NextRefresh(outs, d, c)
  PROVE  \E o \in outs :
           IF o.ret = Ok
             THEN x \in (IF c \in o.rs.m_column_accessors THEN Refresh(o.rs, o.h, d, c)
                         ELSE Only(o.rs, o.h, Ok))
           ELSE x = o
BY DEF NextRefresh, After

\* The outcomes after each accessor up to n.
Refreshes(f, r, g, d, n) ==
  f = [c \in 0 .. n |-> IF c = 0 THEN Only(r, g, Ok) ELSE NextRefresh(f[c - 1], d, c)]

LEMMA RefreshesDefined ==
  ASSUME NEW r, NEW g, NEW d
  PROVE  \A n \in Nat : \E f : Refreshes(f, r, g, d, n)
<1> DEFINE T == {n \in Nat : ~\E f : Refreshes(f, r, g, d, n)}
<1>1. SUFFICES ASSUME T # {} PROVE FALSE
  OBVIOUS
<1>2. T \subseteq Nat
  OBVIOUS
<1> HIDE DEF T
<1>3. PICK m \in T : \A y \in T : m <= y
  BY <1>1, <1>2, LeastMember
<1>4. m \in Nat /\ ~\E f : Refreshes(f, r, g, d, m)
  BY <1>3 DEF T
<1>5. CASE m = 0
  <2> DEFINE f == [i \in 0 .. m |-> Only(r, g, Ok)]
  <2>1. \A i \in 0 .. m : i = 0
    BY <1>5
  <2>2. f = [i \in 0 .. m |-> IF i = 0 THEN Only(r, g, Ok) ELSE NextRefresh(f[i - 1], d, i)]
    BY <2>1
  <2>3. Refreshes(f, r, g, d, m)
    BY <2>2 DEF Refreshes
  <2> QED BY <1>4, <2>3
<1>6. CASE m # 0
  <2>1. m - 1 \in Nat /\ ~(m <= m - 1) /\ m \in 0 .. m
    BY <1>4, <1>6
  <2>2. m - 1 \notin T
    BY <1>3, <2>1
  <2>3. PICK f : Refreshes(f, r, g, d, m - 1)
    BY <2>1, <2>2 DEF T
  <2> DEFINE e == [i \in 0 .. m |-> IF i = m THEN NextRefresh(f[m - 1], d, m) ELSE f[i]]
  <2>4. \A i \in 0 .. m : i # m => i \in 0 .. m - 1
    BY <1>4
  <2>5. \A i \in 0 .. m : i # 0 => i - 1 \in 0 .. m /\ i - 1 # m /\ i - 1 \in 0 .. m - 1
    BY <1>4
  <2>6. \A i \in 0 .. m : e[i] = IF i = m THEN NextRefresh(f[m - 1], d, m) ELSE f[i]
    OBVIOUS
  <2>7. e = [i \in 0 .. m |-> e[i]]
    OBVIOUS
  <2> HIDE DEF e
  <2>8. ASSUME NEW i \in 0 .. m
        PROVE  e[i] = IF i = 0 THEN Only(r, g, Ok) ELSE NextRefresh(e[i - 1], d, i)
    <3>1. CASE i = m
      <4>1. e[i - 1] = f[m - 1]
        BY <1>6, <2>5, <2>6, <3>1
      <4> QED BY <1>6, <2>6, <3>1, <4>1
    <3>2. CASE i # m
      <4>1. e[i] = f[i] /\ i \in 0 .. m - 1
        BY <2>4, <2>6, <3>2
      <4>2. f[i] = IF i = 0 THEN Only(r, g, Ok) ELSE NextRefresh(f[i - 1], d, i)
        BY <2>3, <4>1 DEF Refreshes
      <4>3. i # 0 => e[i - 1] = f[i - 1]
        BY <2>5, <2>6
      <4> QED BY <4>1, <4>2, <4>3
    <3> QED BY <3>1, <3>2
  <2>9. Refreshes(e, r, g, d, m)
    BY <2>7, <2>8 DEF Refreshes
  <2> QED BY <1>4, <2>9
<1> QED BY <1>5, <1>6

\* All of a resultset but its data.
SameShape(q, r) ==
  /\ q \in Objects
  /\ q.m_cursorstate = r.m_cursorstate /\ q.m_current_tuple = r.m_current_tuple
  /\ q.m_column_accessors = r.m_column_accessors /\ q.m_is_bound = r.m_is_bound

\* The accessors up to c are those of row k.
OfRowUpTo(q, d, k, c) ==
  /\ \A b \in q.m_column_accessors \ {0, Lob} : b <= c \/ b \in q.m_is_bound => q.buf[b] = k
  /\ Lob \in q.m_column_accessors /\ Lob <= c => LobOf(q, d, k)

\* An outcome after the accessors up to c.
Refreshing(x, r, g, d, c) ==
  /\ x.ret \in {Ok, Throw}
  /\ x.ret = Throw => x.h.failed
  /\ Queried(x.h, g) /\ SameShape(x.rs, r)
  /\ x.ret = Ok => x.h.got <= c
  /\ ~x.h.failed => OfRowUpTo(x.rs, d, g.at, c)
  /\ Lob \notin r.m_column_accessors => x.rs.lob = r.lob

\* A row has arrived.
Arrived(r, g, d) ==
  /\ r \in Objects /\ g \in Handles /\ Able(d)
  /\ OnRow(g) /\ g.got = 0
  /\ Lob \notin r.m_is_bound
  /\ \A c \in Unbound(r) : Reachable(g, d, c)
  /\ \A c \in r.m_is_bound : r.buf[c] = g.at

\* The driver gives the columns in the order of their numbers.
LEMMA InOrder ==
  ASSUME NEW r, NEW g, NEW d, Arrived(r, g, d), NEW c \in 1 .. Width, c \in Unbound(r),
         NEW k, Queried(k, g), k.got <= c - 1
  PROVE  MayGet(k, d.ext, c) /\ Given(k, c) = 0
<1>1. Reachable(g, d, c) /\ OnRow(g)
  BY DEF Arrived
<1>2. k.got \in Nat /\ c \in Nat /\ k.got <= c /\ k.got # c
  BY WidthAssumption DEF Queried, Handles
<1>3. OnRow(k) /\ k.bound = g.bound
  BY <1>1 DEF OnRow, Queried
<1> QED BY <1>1, <1>2, <1>3 DEF MayGet, Reachable, Given

\* An accessor that is bound has its value.
LEMMA RefreshBound ==
  ASSUME NEW r, NEW g, NEW d, Arrived(r, g, d), NEW c \in 1 .. Width, c \in r.m_is_bound,
         NEW o, Refreshing(o, r, g, d, c - 1), o.ret = Ok,
         NEW x \in Refresh(o.rs, o.h, d, c)
  PROVE  Refreshing(x, r, g, d, c)
<1>1. c # Lob /\ c \in o.rs.m_is_bound /\ c \in Nat /\ Lob \in Nat /\ o.h.got \in Nat
  BY LibraryAssumption, WidthAssumption DEF Arrived, Refreshing, SameShape, Queried, Handles
<1>2. x.rs = o.rs /\ x.h = o.h /\ x.ret = Ok
  BY <1>1 DEF Refresh, Only, Outcome
<1>3. o.h.got <= c
  BY <1>1 DEF Refreshing
<1>4. ASSUME OfRowUpTo(o.rs, d, g.at, c - 1)
      PROVE  OfRowUpTo(o.rs, d, g.at, c)
  <2>1. Lob <= c => Lob <= c - 1
    BY <1>1
  <2>2. \A b \in o.rs.m_column_accessors : b <= c => b <= c - 1 \/ b = c
    BY <1>1, WidthAssumption DEF Refreshing, SameShape, Objects
  <2> QED BY <1>1, <1>4, <2>1, <2>2 DEF OfRowUpTo
<1> QED BY <1>2, <1>3, <1>4, Words DEF Refreshing

\* An accessor of a plain column that is not bound reads its value.
LEMMA RefreshPlain ==
  ASSUME NEW r, NEW g, NEW d, Arrived(r, g, d), NEW c \in 1 .. Width, c \in Unbound(r), c # Lob,
         NEW o, Refreshing(o, r, g, d, c - 1), o.ret = Ok,
         NEW x \in Refresh(o.rs, o.h, d, c)
  PROVE  Refreshing(x, r, g, d, c)
<1>1. /\ c \notin o.rs.m_is_bound /\ c # 0 /\ c \in Nat /\ Lob \in Nat /\ o.h.got \in Nat
      /\ o.h \in Handles /\ o.rs \in Objects
  BY LibraryAssumption, WidthAssumption
  DEF Arrived, Refreshing, SameShape, Queried, Handles, Unbound
<1>2. MayGet(o.h, d.ext, c) /\ Given(o.h, c) = 0
  BY InOrder DEF Refreshing
<1> DEFINE q == [o.rs EXCEPT !.buf[c] = o.h.at]
<1>3. PICK y \in Gets(o.h, d.ext, c) :
        x = IF y[2] = "PART" THEN Outcome(q, y[1], Ok) ELSE Outcome(o.rs, y[1], Throw)
  BY <1>1 DEF Refresh
<1>4. Answers(y, o.h, d.ext, c)
  BY <1>1, <1>3, Getting
<1>5. Queried(y[1], g) /\ y[1].got \in Nat
  BY <1>4, QueriedAgain DEF Answers, Refreshing, Queried, Handles
<1>6. Parts(o.h, c) = 1
  BY DEF Parts
<1>7. CASE y[2] = "PART"
  <2>1. x.rs = q /\ x.h = y[1] /\ x.ret = Ok
    BY <1>3, <1>7 DEF Outcome
  <2>2. y[1].got = c /\ y[1].failed = o.h.failed
    BY <1>4, <1>7 DEF Answers
  <2>3. o.h.at = g.at /\ o.h.at \in Nat
    BY <1>1 DEF Refreshing, Queried, Handles
  <2>4. SameShape(q, r) /\ q.lob = o.rs.lob
    BY <1>1, <2>3 DEF Refreshing, SameShape, Objects
  <2>5. q.buf = [o.rs.buf EXCEPT ![c] = g.at] /\ DOMAIN o.rs.buf = 1 .. Width
    BY <1>1, <2>3 DEF Objects
  <2>6. ASSUME OfRowUpTo(o.rs, d, g.at, c - 1)
        PROVE  OfRowUpTo(q, d, g.at, c)
    <3>1. Lob <= c => Lob <= c - 1
      BY <1>1
    <3>2. \A b \in o.rs.m_column_accessors : b <= c => b <= c - 1 \/ b = c
      BY <1>1, WidthAssumption DEF Objects
    <3>3. q.m_column_accessors = o.rs.m_column_accessors /\ q.m_is_bound = o.rs.m_is_bound
      BY <1>1 DEF Objects
    <3>4. \A b \in o.rs.m_column_accessors \ {0, Lob} :
             q.buf[b] = IF b = c THEN g.at ELSE o.rs.buf[b]
      BY <1>1, <2>5, WidthAssumption DEF Objects
    <3>5. LobOf(o.rs, d, g.at) => LobOf(q, d, g.at)
      BY <2>4, <3>3 DEF LobOf
    <3> HIDE DEF q
    <3> QED BY <2>6, <3>1, <3>2, <3>3, <3>4, <3>5 DEF OfRowUpTo
  <2>7. c <= c
    BY <1>1
  <2> HIDE DEF q
  <2> QED BY <1>5, <2>1, <2>2, <2>4, <2>6, <2>7, Words DEF Refreshing
<1>8. CASE y[2] # "PART"
  <2>1. x.rs = o.rs /\ x.h = y[1] /\ x.ret = Throw
    BY <1>3, <1>8 DEF Outcome
  <2>2. y[1].failed
    BY <1>2, <1>4, <1>6, <1>8 DEF Answers
  <2> QED BY <1>5, <2>1, <2>2, Words DEF Refreshing
<1> QED BY <1>7, <1>8

\* The accessor of the LOB drops what it had, and reads it anew or leaves it.
LEMMA RefreshLob ==
  ASSUME NEW r, NEW g, NEW d, Arrived(r, g, d), Lob \in r.m_column_accessors,
         NEW o, Refreshing(o, r, g, d, Lob - 1), o.ret = Ok,
         NEW x \in Refresh(o.rs, o.h, d, Lob)
  PROVE  Refreshing(x, r, g, d, Lob)
<1>1. /\ Lob \in 1 .. Width /\ Lob \in Nat /\ Lob # 0 /\ o.h.got \in Nat
      /\ o.h \in Handles /\ o.rs \in Objects /\ Lob \notin o.rs.m_is_bound
      /\ Lob \in Unbound(r) /\ o.h.at = g.at /\ g.at \in Nat
  BY LibraryAssumption, WidthAssumption
  DEF Arrived, Refreshing, SameShape, Queried, Handles, Unbound
<1> DEFINE q == [o.rs EXCEPT !.lob = NoLob]
<1>2. /\ SameShape(q, r) /\ q \in Objects /\ q.buf = o.rs.buf /\ q.lob = NoLob
      /\ q.m_column_accessors = o.rs.m_column_accessors /\ q.m_is_bound = o.rs.m_is_bound
  BY <1>1 DEF Refreshing, SameShape, Objects, NoLob, NoRow
<1>3. ASSUME NEW p, OfRowUpTo(o.rs, d, g.at, Lob - 1), LobOf(p, d, g.at), p.buf = o.rs.buf,
             p.m_column_accessors = o.rs.m_column_accessors, p.m_is_bound = o.rs.m_is_bound
      PROVE  OfRowUpTo(p, d, g.at, Lob)
  <2>1. \A b \in o.rs.m_column_accessors : b <= Lob => b <= Lob - 1 \/ b = Lob
    BY <1>1, WidthAssumption DEF Objects
  <2> QED BY <1>3, <2>1 DEF OfRowUpTo
<1>4. CASE d.deferred
  <2>1. x.rs = q /\ x.h = o.h /\ x.ret = Ok
    BY <1>1, <1>4 DEF Refresh, Only, Outcome
  <2>2. LobOf(q, d, g.at)
    BY <1>2, <1>4 DEF LobOf, NoLob
  <2>3. o.h.got <= Lob
    BY <1>1 DEF Refreshing
  <2> HIDE DEF q
  <2> QED BY <1>1, <1>2, <1>3, <2>1, <2>2, <2>3, Words DEF Refreshing
<1>5. CASE ~d.deferred
  <2>1. x \in FillCache(q, o.h, d)
    BY <1>1, <1>5 DEF Refresh
  <2> HIDE DEF q
  <2>2. Fills(x, q, o.h, d)
    BY <1>1, <2>1, Filling
  <2>3. MayGet(o.h, d.ext, Lob) /\ Given(o.h, Lob) = 0
    BY <1>1, InOrder DEF Refreshing
  <2>4. PICK n \in Nat : x.rs = Cached(q, g.at, n) /\ (~x.h.failed => n = LobParts[g.at])
    BY <1>1, <2>2, <2>3 DEF Fills
  <2>5. /\ x.rs \in Objects /\ x.rs.buf = q.buf /\ x.rs.m_is_bound = q.m_is_bound
        /\ x.rs.m_column_accessors = q.m_column_accessors
        /\ x.rs.m_cursorstate = q.m_cursorstate /\ x.rs.m_current_tuple = q.m_current_tuple
        /\ x.rs.lob.stream = g.at /\ x.rs.lob.cache = g.at /\ x.rs.lob.has = n
    <3> DEFINE l == [stream |-> g.at, cache |-> g.at, has |-> n]
    <3>1. l \in [stream : Nat, cache : Nat, has : Nat] /\ l.stream = g.at /\ l.cache = g.at /\ l.has = n
      BY <1>1
    <3>2. x.rs = [q EXCEPT !.lob = l]
      BY <2>4 DEF Cached
    <3> HIDE DEF l
    <3> QED BY <1>2, <3>1, <3>2 DEF Objects
  <2>6. SameShape(x.rs, r)
    BY <1>2, <2>5 DEF SameShape
  <2>7. ~x.h.failed => LobOf(x.rs, d, g.at)
    BY <2>4, <2>5 DEF LobOf
  <2>8. /\ x.ret = Ok /\ Queried(x.h, o.h) /\ x.h.got \in {o.h.got, Lob} /\ Queried(o.h, g)
        /\ (~x.h.failed => ~o.h.failed)
    BY <2>2 DEF Fills, Queried, Refreshing
  <2>9. Queried(x.h, g) /\ x.h.got <= Lob
    BY <1>1, <2>8, QueriedAgain DEF Refreshing
  <2>10. ~x.h.failed => OfRowUpTo(x.rs, d, g.at, Lob)
    BY <1>2, <1>3, <2>5, <2>7, <2>8 DEF Refreshing
  <2> QED BY <1>1, <2>6, <2>8, <2>9, <2>10, Words DEF Refreshing
<1> QED BY <1>4, <1>5

LEMMA RefreshesSound ==
  ASSUME NEW r, NEW g, NEW d, Arrived(r, g, d), NEW f, Refreshes(f, r, g, d, Width)
  PROVE  \A c \in 0 .. Width : \A x \in f[c] : Refreshing(x, r, g, d, c)
<1> DEFINE T == {c \in 0 .. Width : ~\A x \in f[c] : Refreshing(x, r, g, d, c)}
<1>1. SUFFICES ASSUME T # {} PROVE FALSE
  OBVIOUS
<1>2. T \subseteq Nat
  BY WidthAssumption
<1> HIDE DEF T
<1>3. PICK m \in T : \A y \in T : m <= y
  BY <1>1, <1>2, LeastMember
<1>4. PICK x \in f[m] : ~Refreshing(x, r, g, d, m)
  BY <1>3 DEF T
<1>5. m \in 0 .. Width /\ m \in Nat
  BY <1>2, <1>3 DEF T
<1>6. f[m] = IF m = 0 THEN Only(r, g, Ok) ELSE NextRefresh(f[m - 1], d, m)
  BY <1>5 DEF Refreshes
<1>7. CASE m = 0
  <2>1. x.rs = r /\ x.h = g /\ x.ret = Ok
    BY <1>4, <1>6, <1>7 DEF Only, Outcome
  <2>2. /\ Queried(g, g) /\ SameShape(r, r) /\ g.got <= 0
        /\ r.m_column_accessors \subseteq 0 .. Width
    BY QueriedSame DEF Arrived, SameShape, Objects
  <2>3. OfRowUpTo(r, d, g.at, 0)
    <3>1. \A b \in r.m_column_accessors \ {0, Lob} : ~(b <= 0)
      BY <2>2
    <3>2. ~(Lob <= 0)
      BY LibraryAssumption
    <3> QED BY <3>1, <3>2 DEF OfRowUpTo, Arrived
  <2> QED BY <1>4, <1>7, <2>1, <2>2, <2>3, Words DEF Refreshing
<1>8. CASE m # 0
  <2>1. m - 1 \in 0 .. Width /\ ~(m <= m - 1) /\ m \in 1 .. Width
    BY <1>5, <1>8, WidthAssumption
  <2>2. \A y \in f[m - 1] : Refreshing(y, r, g, d, m - 1)
    BY <1>3, <2>1 DEF T
  <2>3. x \in NextRefresh(f[m - 1], d, m)
    BY <1>4, <1>6, <1>8
  <2>4. PICK o \in f[m - 1] :
           IF o.ret = Ok
             THEN x \in (IF m \in o.rs.m_column_accessors THEN Refresh(o.rs, o.h, d, m)
                         ELSE Only(o.rs, o.h, Ok))
           ELSE x = o
    BY <2>3, AfterRefresh
  <2>5. Refreshing(o, r, g, d, m - 1)
    BY <2>2
  <2>6. CASE o.ret # Ok
    <3>1. x = o /\ o.ret = Throw /\ o.h.failed
      BY <2>4, <2>5, <2>6 DEF Refreshing
    <3> QED BY <1>4, <2>5, <3>1, Words DEF Refreshing
  <2>7. CASE o.ret = Ok /\ m \notin o.rs.m_column_accessors
    <3>1. x.rs = o.rs /\ x.h = o.h /\ x.ret = Ok
      BY <2>4, <2>7 DEF Only, Outcome
    <3>2. o.h.got \in Nat /\ o.rs.m_column_accessors \subseteq 0 .. Width
      BY <2>5 DEF Refreshing, Queried, SameShape, Handles, Objects
    <3>3. o.h.got <= m
      BY <1>5, <2>5, <2>7, <3>2 DEF Refreshing
    <3>4. \A b \in o.rs.m_column_accessors : b <= m => b <= m - 1
      BY <1>5, <2>7, <3>2, WidthAssumption
    <3>5. Lob \in o.rs.m_column_accessors /\ Lob <= m => Lob <= m - 1
      BY <3>4
    <3>6. OfRowUpTo(o.rs, d, g.at, m - 1) => OfRowUpTo(o.rs, d, g.at, m)
      BY <3>4, <3>5 DEF OfRowUpTo
    <3> QED BY <1>4, <2>5, <3>1, <3>3, <3>6, Words DEF Refreshing
  <2>8. CASE o.ret = Ok /\ m \in o.rs.m_column_accessors
    <3>1. x \in Refresh(o.rs, o.h, d, m)
      BY <2>4, <2>8
    <3>2. m \in r.m_column_accessors
      BY <2>5, <2>8 DEF Refreshing, SameShape
    <3>3. CASE m \in r.m_is_bound
      BY <1>4, <2>1, <2>5, <2>8, <3>1, <3>3, RefreshBound
    <3>4. CASE m \notin r.m_is_bound /\ m # Lob
      <4>1. m \in Unbound(r)
        BY <1>8, <3>2, <3>4 DEF Unbound
      <4> QED BY <1>4, <2>1, <2>5, <2>8, <3>1, <3>4, <4>1, RefreshPlain
    <3>5. CASE m = Lob
      BY <1>4, <2>5, <2>8, <3>1, <3>2, <3>5, RefreshLob
    <3> QED BY <3>3, <3>4, <3>5
  <2> QED BY <2>6, <2>7, <2>8
<1> QED BY <1>7, <1>8

\* All accessors are refreshed, or the row is known to be lost.
LEMMA RefreshAllSound ==
  ASSUME NEW r, NEW g, NEW d, Arrived(r, g, d), NEW x \in RefreshAll(r, g, d)
  PROVE  Refreshing(x, r, g, d, Width)
<1> DEFINE f == CHOOSE e : Refreshes(e, r, g, d, Width)
<1>1. x \in f[Width]
  BY DEF RefreshAll, Refreshes, NextRefresh
<1>2. Refreshes(f, r, g, d, Width)
  BY WidthAssumption, RefreshesDefined
<1> HIDE DEF f
<1>3. Width \in 0 .. Width
  BY WidthAssumption
<1>4. \A c \in 0 .. Width : \A y \in f[c] : Refreshing(y, r, g, d, c)
  BY <1>2, RefreshesSound
<1> QED BY <1>1, <1>3, <1>4

\* What a method leaves: the program goes on.
Good(x, g, d) ==
  /\ GoesOn(x.ret)
  /\ ResultFine(x.rs, x.h, d) /\ HandleFine(x.h) /\ x.h.live = g.live

LEMMA RefreshedFine ==
  ASSUME NEW r, NEW g, NEW d, Arrived(r, g, d), Attached(r, g, d), Placed(r, g), Live(r),
         Prefixed(r), NEW x, Refreshing(x, r, g, d, Width)
  PROVE  ResultFine(x.rs, x.h, d) /\ HandleFine(x.h) /\ x.h.live = g.live
<1>1. /\ x.rs \in Objects /\ x.rs.m_column_accessors = r.m_column_accessors
      /\ x.rs.m_is_bound = r.m_is_bound /\ x.rs.m_cursorstate = r.m_cursorstate
      /\ x.rs.m_current_tuple = r.m_current_tuple
      /\ x.h \in Handles /\ x.h.live = g.live /\ x.h.cursor = "open" /\ x.h.at = g.at
      /\ x.h.bound = g.bound
  BY DEF Refreshing, SameShape, Queried, Arrived, OnRow
<1>2. Prefixed(x.rs) /\ IsOpen(x.rs) /\ Placed(x.rs, x.h)
  BY <1>1 DEF Prefixed, IsOpen, IsBad, IsEof, Positioned, Placed, Live
<1>3. Attached(x.rs, x.h, d)
  BY <1>1 DEF Attached, Unbound, Reachable, Refreshing
<1>4. ~x.h.failed => OfRow(x.rs, d, x.h.at)
  <2>1. x.rs.m_column_accessors \subseteq 0 .. Width /\ Lob <= Width /\ Width \in Nat
    BY <1>1, WidthAssumption DEF Objects
  <2>2. \A b \in x.rs.m_column_accessors : b <= Width
    BY <2>1
  <2>3. Lob \notin x.rs.m_column_accessors => x.rs.lob = NoLob
    BY <1>3 DEF Attached
  <2>4. Lob \notin x.rs.m_column_accessors => LobOf(x.rs, d, x.h.at)
    BY <2>3 DEF LobOf, NoLob
  <2> QED BY <1>1, <2>1, <2>2, <2>4 DEF Refreshing, OfRowUpTo, OfRow
<1> QED BY <1>1, <1>2, <1>3, <1>4 DEF ResultFine, HandleFine

-----------------------------------------------------------------------------
(* Moving                                                                  *)

\* What a fetch gives.
Fetched(y, g) ==
  /\ y[1] \in Handles /\ y[1].live = g.live /\ y[1].cursor = g.cursor /\ y[1].bound = g.bound
  /\ y[1].text = g.text
  /\ \/ y[2] = "ERROR" /\ y[1].failed /\ y[1].at = g.at
     \/ /\ y[2] = "OK" /\ g.live /\ g.cursor = "open" /\ g.at < MaxRows
        /\ y[1].at = g.at + 1 /\ y[1].got = 0 /\ ~y[1].failed
     \/ y[2] = "NO_DATA" /\ g.live /\ g.cursor = "open" /\ y[1].at = Behind

LEMMA Fetching ==
  ASSUME NEW g \in Handles, NEW y \in Fetches(g)
  PROVE  Fetched(y, g)
<1> DEFINE lost == [g EXCEPT !.failed = TRUE]
           b == [g EXCEPT !.at = g.at + 1]
           c == [b EXCEPT !.got = 0]
           e == [c EXCEPT !.part = 0]
           f == [e EXCEPT !.failed = FALSE]
           z == [g EXCEPT !.at = Behind]
<1>1. /\ lost \in Handles /\ lost.live = g.live /\ lost.cursor = g.cursor
      /\ lost.bound = g.bound /\ lost.text = g.text /\ lost.at = g.at
  BY DEF Handles
<1>2. lost.failed = TRUE
  BY DEF Handles
<1>3. g.at + 1 \in Nat /\ Behind \in Nat
  BY LibraryAssumption DEF Handles, Behind
<1>4. /\ b \in Handles /\ b.live = g.live /\ b.cursor = g.cursor
      /\ b.bound = g.bound /\ b.text = g.text /\ b.at = g.at + 1
  BY <1>3 DEF Handles
<1>5. /\ c \in Handles /\ c.live = g.live /\ c.cursor = g.cursor
      /\ c.bound = g.bound /\ c.text = g.text /\ c.at = g.at + 1 /\ c.got = 0
  <2> HIDE DEF b
  <2> QED BY <1>4 DEF Handles
<1>6. /\ e \in Handles /\ e.live = g.live /\ e.cursor = g.cursor
      /\ e.bound = g.bound /\ e.text = g.text /\ e.at = g.at + 1 /\ e.got = 0
  <2> HIDE DEF c
  <2> QED BY <1>5 DEF Handles
<1>7. /\ f \in Handles /\ f.live = g.live /\ f.cursor = g.cursor
      /\ f.bound = g.bound /\ f.text = g.text /\ f.at = g.at + 1 /\ f.got = 0
  <2> HIDE DEF e
  <2> QED BY <1>6 DEF Handles
<1>8. f.failed = FALSE
  <2> HIDE DEF e
  <2> QED BY <1>6 DEF Handles
<1>9. /\ z \in Handles /\ z.live = g.live /\ z.cursor = g.cursor
      /\ z.bound = g.bound /\ z.text = g.text /\ z.at = Behind
  BY <1>3 DEF Handles
<1>10. [g EXCEPT !.at = @ + 1, !.got = 0, !.part = 0, !.failed = FALSE] = f
  BY DEF Handles
<1> HIDE DEF f, b, c, e
<1>11. \/ y = <<lost, "ERROR">>
       \/ y = <<f, "OK">> /\ g.live /\ g.cursor = "open" /\ g.at < MaxRows
       \/ y = <<z, "NO_DATA">> /\ g.live /\ g.cursor = "open"
  BY <1>10 DEF Fetches
<1> HIDE DEF lost, z
<1> QED BY <1>1, <1>2, <1>7, <1>8, <1>9, <1>11 DEF Fetched

\* The driver writes the buffers of the columns that are bound.
LEMMA Writing ==
  ASSUME NEW r \in Objects, NEW k \in Nat
  PROVE  LET q == Written(r, k)
         IN  /\ q \in Objects /\ q.m_cursorstate = r.m_cursorstate
             /\ q.m_current_tuple = r.m_current_tuple
             /\ q.m_column_accessors = r.m_column_accessors /\ q.m_is_bound = r.m_is_bound
             /\ q.lob = r.lob
             /\ \A c \in r.m_is_bound : q.buf[c] = k
<1> DEFINE b == [c \in 1 .. Width |-> IF c \in r.m_is_bound THEN k ELSE r.buf[c]]
<1>1. r.m_is_bound \subseteq 1 .. Width /\ r.buf \in [1 .. Width -> Nat]
  BY DEF Objects
<1>2. b \in [1 .. Width -> Nat] /\ \A c \in r.m_is_bound : b[c] = k
  BY <1>1
<1>3. Written(r, k) = [r EXCEPT !.buf = b]
  BY DEF Written
<1> HIDE DEF b
<1> QED BY <1>2, <1>3 DEF Objects

\* A resultset at the row the driver fetched for it.
AtRow(q, r, k) ==
  /\ q \in Objects /\ Prefixed(q) /\ Live(q) /\ q.m_current_tuple = k
  /\ q.m_column_accessors = r.m_column_accessors /\ q.m_is_bound = r.m_is_bound
  /\ q.lob = r.lob
  /\ \A c \in r.m_is_bound : q.buf[c] = k

LEMMA RowArrives ==
  ASSUME NEW r, NEW g, NEW d, ResultFine(r, g, d), IsOpen(r), HandleFine(g), Able(d),
         NEW y, Fetched(y, g), y[2] = "OK", NEW q, AtRow(q, r, g.at + 1),
         NEW x \in RefreshAll(q, y[1], d)
  PROVE  Good(x, g, d) /\ x.ret \in {Ok, Throw}
<1> DEFINE k == y[1]
<1>1. /\ k \in Handles /\ k.live = g.live /\ g.live /\ k.cursor = "open" /\ k.bound = g.bound
      /\ k.at = g.at + 1 /\ k.got = 0 /\ ~k.failed /\ g.at < MaxRows
      /\ g.at \in Nat /\ MaxRows \in Nat
  BY LibraryAssumption DEF Fetched, HandleFine, Handles
<1> HIDE DEF k
<1>2. OnRow(k) /\ k.at \in 1 .. MaxRows
  BY <1>1 DEF OnRow
<1>3. Attached(q, k, d)
  BY <1>1 DEF ResultFine, Attached, Unbound, Reachable, AtRow
<1>4. Arrived(q, k, d)
  BY <1>1, <1>2, <1>3 DEF Arrived, Attached, AtRow
<1>5. Placed(q, k) /\ Live(q) /\ Prefixed(q)
  BY <1>1, <1>2 DEF Placed, AtRow, Live
<1>6. Refreshing(x, q, k, d, Width)
  BY <1>4, RefreshAllSound DEF k
<1>7. ResultFine(x.rs, x.h, d) /\ HandleFine(x.h) /\ x.h.live = k.live
  BY <1>3, <1>4, <1>5, <1>6, RefreshedFine
<1> QED BY <1>1, <1>6, <1>7, Words DEF Good, Refreshing

\* The driver did not give a row.
LEMMA NoneArrives ==
  ASSUME NEW r, NEW g, NEW d, ResultFine(r, g, d), IsOpen(r), HandleFine(g),
         NEW y, Fetched(y, g)
  PROVE  /\ y[2] = "ERROR" => ResultFine(r, y[1], d)
         /\ y[2] = "NO_DATA" => ResultFine(SetState(r, "EOF"), y[1], d)
         /\ HandleFine(y[1]) /\ y[1].live = g.live
<1>1. HandleFine(y[1]) /\ y[1].live = g.live
  BY DEF Fetched, HandleFine
<1>2. ASSUME y[2] = "ERROR" PROVE ResultFine(r, y[1], d)
  <2>1. y[1].failed /\ y[1].at = g.at /\ y[1].cursor = g.cursor /\ y[1].bound = g.bound
    BY <1>2 DEF Fetched
  <2> QED BY <2>1 DEF ResultFine, Attached, Reachable, Placed
<1>3. ASSUME y[2] = "NO_DATA" PROVE ResultFine(SetState(r, "EOF"), y[1], d)
  <2> DEFINE q == SetState(r, "EOF")
  <2>1. y[1].at = Behind /\ y[1].bound = g.bound
    BY <1>3 DEF Fetched
  <2>2. /\ IsOpen(q) /\ Positioned(q) /\ IsEof(q) /\ ~IsBad(q) /\ Alike(q, r)
    BY States DEF ResultFine
  <2> HIDE DEF q
  <2>3. Attached(q, y[1], d)
    BY <2>1, <2>2 DEF ResultFine, Attached, Reachable, Unbound, Alike
  <2> QED BY <2>1, <2>2, <2>3 DEF ResultFine, Prefixed, Placed, Live, Alike, q
<1> QED BY <1>1, <1>2, <1>3

LEMMA Unmoved ==
  ASSUME NEW r, NEW g, NEW d, ResultFine(r, g, d), HandleFine(g), NEW a, GoesOn(a),
         NEW x, x = Outcome(r, g, a)
  PROVE  Good(x, g, d)
BY DEF Good, Outcome

LEMMA FailingGood ==
  ASSUME NEW r, NEW g, NEW d, ResultFine(r, g, d), HandleFine(g), NEW x \in Failing(r, g)
  PROVE  Good(x, g, d)
BY Unmoved, Words DEF Failing, Only

\* first() takes the first row of a cursor that was not moved.
LEMMA FirstGood ==
  ASSUME NEW r, NEW g, NEW d, ResultFine(r, g, d), HandleFine(g), g.live, Able(d),
         NEW x \in RsFirst(r, g, d)
  PROVE  Good(x, g, d)
<1>1. r \in Objects /\ r.m_current_tuple \in Nat /\ g \in Handles /\ g.at \in Nat
  BY DEF ResultFine, Objects, HandleFine, Handles
<1>2. CASE Unusable(r) \/ r.m_current_tuple > 1
  BY <1>2, FailingGood DEF RsFirst
<1>3. CASE ~Unusable(r) /\ r.m_current_tuple = 1
  <2>1. x = Outcome(r, g, Ok)
    BY <1>3 DEF RsFirst, Only
  <2> QED BY <2>1, Unmoved, Words
<1>4. CASE ~Unusable(r) /\ r.m_current_tuple = 0
  <2>1. IsOpen(r)
    BY <1>4 DEF Unusable
  <2>2. PICK y \in Fetches(g) :
          x \in CASE y[2] = "OK" ->
                       RefreshAll([SetState(Written(r, y[1].at), "POSITIONED")
                                     EXCEPT !.m_current_tuple = 1], y[1], d)
                  [] y[2] = "NO_DATA" -> Only(SetState(r, "EOF"), y[1], Ok)
                  [] y[2] = "ERROR"   -> Failing(r, y[1])
    <3>1. ~(r.m_current_tuple > 1) /\ ~(r.m_current_tuple = 1) /\ ~~g.live
      BY <1>4
    <3>2. RsFirst(r, g, d) =
            UNION {CASE y[2] = "OK" ->
                          RefreshAll([SetState(Written(r, y[1].at), "POSITIONED")
                                        EXCEPT !.m_current_tuple = 1], y[1], d)
                     [] y[2] = "NO_DATA" -> Only(SetState(r, "EOF"), y[1], Ok)
                     [] y[2] = "ERROR"   -> Failing(r, y[1]) : y \in Fetches(g)}
      BY <1>4, <3>1 DEF RsFirst
    <3> QED BY <3>2
  <2>3. Fetched(y, g)
    BY <1>1, Fetching
  <2>4. CASE y[2] = "OK"
    <3> DEFINE w == Written(r, y[1].at)
               p == SetState(w, "POSITIONED")
               q == [p EXCEPT !.m_current_tuple = 1]
    <3>1. g.cursor = "open" /\ g.at < MaxRows /\ y[1].at = g.at + 1
      BY <2>3, <2>4 DEF Fetched
    <3>2. Placed(r, g)
      BY <2>1, <3>1 DEF ResultFine
    <3>3. g.at = 0
      BY <1>1, <1>4, <3>1, <3>2, LibraryAssumption DEF Placed, Behind, NoRow
    <3>4. y[1].at = 1 /\ g.at + 1 = 1
      BY <3>1, <3>3
    <3>5. /\ w \in Objects /\ w.m_column_accessors = r.m_column_accessors
          /\ w.m_is_bound = r.m_is_bound /\ w.lob = r.lob
          /\ \A c \in r.m_is_bound : w.buf[c] = 1
      <4>1. y[1].at \in Nat
        BY <3>4
      <4> HIDE DEF w
      <4>2. /\ w \in Objects /\ w.m_column_accessors = r.m_column_accessors
            /\ w.m_is_bound = r.m_is_bound /\ w.lob = r.lob
            /\ \A c \in r.m_is_bound : w.buf[c] = y[1].at
        BY <1>1, <4>1, Writing DEF w
      <4> QED BY <3>4, <4>2
    <3> HIDE DEF w
    <3>6. /\ IsOpen(p) /\ Positioned(p) /\ ~IsEof(p) /\ ~IsBad(p) /\ Alike(p, w)
      BY <3>5, States
    <3> HIDE DEF p
    <3>7. /\ q \in Objects /\ q.m_cursorstate = p.m_cursorstate /\ q.m_current_tuple = 1
          /\ q.m_column_accessors = r.m_column_accessors /\ q.m_is_bound = r.m_is_bound
          /\ q.lob = r.lob /\ q.buf = w.buf
      BY <3>5, <3>6 DEF Alike, Objects
    <3>8. x \in RefreshAll(q, y[1], d)
      BY <2>2, <2>4 DEF w, p
    <3> HIDE DEF q
    <3>9. Prefixed(q) /\ Live(q)
      BY <3>6, <3>7 DEF Prefixed, Live, IsOpen, Positioned, IsEof, IsBad
    <3>10. AtRow(q, r, g.at + 1)
      BY <3>4, <3>5, <3>7, <3>9 DEF AtRow
    <3> QED BY <2>1, <2>3, <2>4, <3>8, <3>10, RowArrives
  <2>5. CASE y[2] = "NO_DATA"
    <3>1. x = Outcome(SetState(r, "EOF"), y[1], Ok)
      BY <2>2, <2>5 DEF Only
    <3> QED BY <2>1, <2>3, <2>5, <3>1, NoneArrives, Words DEF Good, Outcome
  <2>6. CASE y[2] = "ERROR"
    <3>1. x = Outcome(r, y[1], Throw)
      BY <2>2, <2>6 DEF Failing, Only
    <3> QED BY <2>1, <2>3, <2>6, <3>1, NoneArrives, Words DEF Good, Outcome
  <2> QED BY <2>3, <2>4, <2>5, <2>6 DEF Fetched
<1> QED BY <1>1, <1>2, <1>3, <1>4

\* What eof() answers says nothing new of the object.
LEMMA EofAnswer ==
  ASSUME NEW r, NEW g, NEW a \in RsEof(r, g)
  PROVE  a.rs = r /\ a.h = g /\ GoesOn(a.ret) /\ a.ret \in {Throw, Yes, No}
         /\ a = Outcome(r, g, a.ret)
BY Words DEF RsEof, Only, Outcome, Bool

\* next() takes the row after the one the cursor is at.
LEMMA NextGood ==
  ASSUME NEW r, NEW g, NEW d, ResultFine(r, g, d), HandleFine(g), g.live, Able(d),
         Positioned(r), NEW x \in RsNext(r, g, d)
  PROVE  Good(x, g, d)
<1>1. r \in Objects /\ r.m_current_tuple \in Nat /\ g \in Handles /\ g.at \in Nat
  BY DEF ResultFine, Objects, HandleFine, Handles
<1>2. CASE Unusable(r)
  BY <1>2, FailingGood DEF RsNext
<1>3. CASE ~Unusable(r)
  <2>1. IsOpen(r)
    BY <1>3 DEF Unusable
  <2>2. PICK y \in Fetches(g) :
          x \in CASE y[2] = "OK" ->
                       After(RefreshAll([Written(r, y[1].at) EXCEPT !.m_current_tuple = @ + 1],
                                        y[1], d),
                             LAMBDA q, k : {[a EXCEPT !.ret = CASE @ = Yes -> No [] @ = No -> Yes
                                                              [] OTHER -> @] : a \in RsEof(q, k)})
                  [] y[2] = "NO_DATA" -> Only(SetState(r, "EOF"), y[1], No)
                  [] y[2] = "ERROR"   -> Failing(r, y[1])
    BY <1>3 DEF RsNext
  <2>3. Fetched(y, g)
    BY <1>1, Fetching
  <2>4. CASE y[2] = "OK"
    <3> DEFINE w == Written(r, y[1].at)
               q == [w EXCEPT !.m_current_tuple = @ + 1]
    <3>1. g.cursor = "open" /\ g.at < MaxRows /\ y[1].at = g.at + 1
      BY <2>3, <2>4 DEF Fetched
    <3>2. Placed(r, g)
      BY <2>1, <3>1 DEF ResultFine
    <3>3. g.at = r.m_current_tuple /\ ~IsEof(r)
      BY <1>1, <3>1, <3>2, LibraryAssumption DEF Placed, Behind
    <3>4. /\ w \in Objects /\ w.m_column_accessors = r.m_column_accessors
          /\ w.m_is_bound = r.m_is_bound /\ w.lob = r.lob
          /\ w.m_current_tuple = r.m_current_tuple /\ w.m_cursorstate = r.m_cursorstate
          /\ \A c \in r.m_is_bound : w.buf[c] = g.at + 1
      <4>1. y[1].at \in Nat
        BY <1>1, <3>1
      <4> HIDE DEF w
      <4>2. /\ w \in Objects /\ w.m_column_accessors = r.m_column_accessors
            /\ w.m_is_bound = r.m_is_bound /\ w.lob = r.lob
            /\ w.m_current_tuple = r.m_current_tuple /\ w.m_cursorstate = r.m_cursorstate
            /\ \A c \in r.m_is_bound : w.buf[c] = y[1].at
        BY <1>1, <4>1, Writing DEF w
      <4> QED BY <3>1, <4>2
    <3> HIDE DEF w
    <3>5. /\ q \in Objects /\ q.m_cursorstate = r.m_cursorstate /\ q.m_current_tuple = g.at + 1
          /\ q.m_column_accessors = r.m_column_accessors /\ q.m_is_bound = r.m_is_bound
          /\ q.lob = r.lob /\ q.buf = w.buf
      BY <1>1, <3>3, <3>4 DEF Objects
    <3> HIDE DEF q
    <3>6. Prefixed(q) /\ Live(q)
      BY <3>3, <3>5 DEF ResultFine, Prefixed, Live, IsOpen, Positioned, IsEof, IsBad
    <3>7. AtRow(q, r, g.at + 1)
      BY <3>4, <3>5, <3>6 DEF AtRow
    <3>8. PICK o \in RefreshAll(q, y[1], d) :
            IF o.ret = Ok
              THEN x \in {[a EXCEPT !.ret = CASE @ = Yes -> No [] @ = No -> Yes
                                              [] OTHER -> @] : a \in RsEof(o.rs, o.h)}
            ELSE x = o
      BY <2>2, <2>4 DEF After, w, q
    <3>9. Good(o, g, d)
      BY <2>1, <2>3, <2>4, <3>7, RowArrives
    <3>10. CASE o.ret = Ok
      <4>1. PICK a \in RsEof(o.rs, o.h) :
              x = [a EXCEPT !.ret = CASE @ = Yes -> No [] @ = No -> Yes [] OTHER -> @]
        BY <3>8, <3>10
      <4>2. /\ a = Outcome(o.rs, o.h, a.ret) /\ a.ret \in {Throw, Yes, No}
        BY EofAnswer
      <4>3. x.rs = o.rs /\ x.h = o.h /\ x.ret \in {Throw, Yes, No}
        BY <4>1, <4>2, Words DEF Outcome
      <4> QED BY <3>9, <4>3, Words DEF Good
    <3>11. CASE o.ret # Ok
      BY <3>8, <3>9, <3>11
    <3> QED BY <3>10, <3>11
  <2>5. CASE y[2] = "NO_DATA"
    <3>1. x = Outcome(SetState(r, "EOF"), y[1], No)
      BY <2>2, <2>5 DEF Only
    <3> QED BY <2>1, <2>3, <2>5, <3>1, NoneArrives, Words DEF Good, Outcome
  <2>6. CASE y[2] = "ERROR"
    <3>1. x = Outcome(r, y[1], Throw)
      BY <2>2, <2>6 DEF Failing, Only
    <3> QED BY <2>1, <2>3, <2>6, <3>1, NoneArrives, Words DEF Good, Outcome
  <2> QED BY <2>3, <2>4, <2>5, <2>6 DEF Fetched
<1> QED BY <1>2, <1>3

-----------------------------------------------------------------------------
(* Values and questions                                                    *)

\* Data that were asked for leave the resultset where it is.
LEMMA QueriedFine ==
  ASSUME NEW r, NEW g, NEW d, ResultFine(r, g, d), HandleFine(g), NEW k, Queried(k, g)
  PROVE  ResultFine(r, k, d) /\ HandleFine(k) /\ k.live = g.live
BY DEF ResultFine, HandleFine, Queried, Attached, Reachable, Placed

\* What moves nothing.
LEMMA AskGood ==
  ASSUME NEW r, NEW g, NEW d, ResultFine(r, g, d), HandleFine(g), NEW num,
         NEW x \in RsEof(r, g) \union RsRowID(r, g) \union RsColumnCount(r, g)
                     \union RsColumnID(r, g) \union RsParamCount(r, g)
                     \union RsAffectedRows(r, g) \union RsLastInsertRowId(r, g)
                     \union RsRowCount(r, g) \union RsDescribeColumn(r, g, num)
  PROVE  Good(x, g, d)
<1>1. \E a : GoesOn(a) /\ x = Outcome(r, g, a)
  BY Words DEF RsEof, RsRowID, RsColumnCount, RsColumnID, RsParamCount, RsAffectedRows,
               RsLastInsertRowId, RsRowCount, RsDescribeColumn, Failing, Only
<1> QED BY <1>1, Unmoved

\* A getter of a buffer that was written.
LEMMA ColumnGood ==
  ASSUME NEW r, NEW g, NEW d, ResultFine(r, g, d), HandleFine(g), NEW num, r.buf[num] # NoRow,
         NEW x \in RsColumn(r, g, num)
  PROVE  Good(x, g, d)
<1>1. \E a : GoesOn(a) /\ x = Outcome(r, g, a)
  BY Words DEF RsColumn, Reading, Failing, Only
<1> QED BY <1>1, Unmoved

\* On a row that was not lost, the driver is where the object says.
LEMMA LiveIsThere ==
  ASSUME NEW r, NEW g, NEW d, ResultFine(r, g, d), HandleFine(g), g.live, Live(r), ~g.failed
  PROVE  /\ OnRow(g) /\ OfRow(r, d, g.at) /\ g.at = r.m_current_tuple
         /\ g.at # NoRow /\ g.at \in Nat
<1>1. IsOpen(r) /\ Positioned(r) /\ ~IsEof(r)
  BY DEF ResultFine, Prefixed, Live
<1>2. g.cursor = "open" /\ OfRow(r, d, g.at) /\ Placed(r, g)
  BY <1>1 DEF ResultFine
<1>3. g.at = r.m_current_tuple /\ g.at \in 1 .. MaxRows
  BY <1>1, <1>2 DEF Placed
<1>4. g.at # NoRow /\ g.at \in Nat
  BY <1>3, LibraryAssumption DEF NoRow
<1> QED BY <1>2, <1>3, <1>4 DEF OnRow

\* The LOB as a value, of which no part was read before.
LEMMA GetBlobGood ==
  ASSUME NEW r, NEW g, NEW d, ResultFine(r, g, d), HandleFine(g), g.live, Able(d), Live(r),
         g.part = 0, NEW x \in RsGetBlob(r, g, d)
  PROVE  Good(x, g, d)
<1>1. \/ x \in Failing(r, g)
      \/ x = Outcome(r, g, Ok)
      \/ /\ x \in FillCache(r, g, d) /\ r.lob.cache = NoRow /\ Lob \in r.m_column_accessors
  BY DEF RsGetBlob, Reading, Only
<1>2. CASE x \in Failing(r, g)
  BY <1>2, FailingGood
<1>3. CASE x = Outcome(r, g, Ok)
  BY <1>3, Unmoved, Words
<1>4. CASE x \in FillCache(r, g, d) /\ r.lob.cache = NoRow /\ Lob \in r.m_column_accessors
  <2>1. g \in Handles /\ r \in Objects /\ g.at \in Nat /\ IsOpen(r)
    BY DEF HandleFine, Handles, ResultFine, Live, Prefixed
  <2>2. Fills(x, r, g, d)
    BY <1>4, <2>1, Filling
  <2>3. PICK n \in Nat :
          /\ x.rs = Cached(r, g.at, n)
          /\ MayGet(g, d.ext, Lob) /\ Given(g, Lob) = 0 /\ ~x.h.failed => n = LobParts[g.at]
    BY <2>2 DEF Fills
  <2> DEFINE l == [stream |-> g.at, cache |-> g.at, has |-> n]
  <2>4. l \in [stream : Nat, cache : Nat, has : Nat] /\ l.stream = g.at /\ l.cache = g.at /\ l.has = n
    BY <2>1
  <2>5. x.rs = [r EXCEPT !.lob = l]
    BY <2>3 DEF Cached
  <2> HIDE DEF l
  <2>6. /\ x.rs \in Objects /\ x.rs.buf = r.buf /\ x.rs.m_is_bound = r.m_is_bound
        /\ x.rs.m_column_accessors = r.m_column_accessors
        /\ x.rs.m_cursorstate = r.m_cursorstate /\ x.rs.m_current_tuple = r.m_current_tuple
        /\ x.rs.lob = l
    BY <2>1, <2>4, <2>5 DEF Objects
  <2>7. Queried(x.h, g) /\ x.ret = Ok
    BY <2>2 DEF Fills
  <2>8. ResultFine(r, x.h, d) /\ HandleFine(x.h) /\ x.h.live = g.live /\ x.h.at = g.at
    BY <2>7, QueriedFine DEF Queried
  <2>9. ASSUME ~x.h.failed PROVE OfRow(x.rs, d, x.h.at)
    <3>1. ~g.failed
      BY <2>7, <2>9 DEF Queried
    <3>2. OnRow(g) /\ OfRow(r, d, g.at) /\ g.at # NoRow
      BY <3>1, LiveIsThere
    <3>3. d.deferred
      BY <1>4, <3>2 DEF OfRow, LobOf
    <3>4. d.ext = {"ANY_COLUMN", "ANY_ORDER", "BOUND"}
      BY <3>3 DEF Able, Extensions
    <3>5. MayGet(g, d.ext, Lob)
      BY <3>2, <3>4 DEF MayGet
    <3>6. Given(g, Lob) = 0
      BY DEF Given
    <3>7. n = LobParts[g.at]
      BY <2>3, <2>9, <3>5, <3>6
    <3> QED BY <2>4, <2>6, <2>8, <3>2, <3>3, <3>7 DEF OfRow, LobOf
  <2>10. /\ Prefixed(x.rs) /\ IsOpen(x.rs) /\ Live(x.rs)
         /\ x.h.cursor = "open" => Placed(x.rs, x.h)
         /\ ~x.h.failed => x.h.cursor = "open"
    BY <2>1, <2>6, <2>8
    DEF ResultFine, Prefixed, IsOpen, IsBad, IsEof, Positioned, Live, Placed
  <2>11. Attached(x.rs, x.h, d)
    BY <1>4, <2>1, <2>6, <2>8 DEF ResultFine, Attached, Unbound
  <2>12. ResultFine(x.rs, x.h, d)
    BY <2>6, <2>9, <2>10, <2>11 DEF ResultFine
  <2> QED BY <2>7, <2>8, <2>12, Words DEF Good
<1> QED BY <1>1, <1>2, <1>3, <1>4

\* The LOB as a stream.
LEMMA GetBlobStreamGood ==
  ASSUME NEW r, NEW g, NEW d, ResultFine(r, g, d), HandleFine(g), Live(r),
         NEW x \in RsGetBlobStream(r, g)
  PROVE  Good(x, g, d)
<1> DEFINE q == [r EXCEPT !.lob.stream = g.at]
<1>1. \/ x \in Failing(r, g)
      \/ x = Outcome(r, g, Ok)
      \/ x = Outcome(q, g, Ok) /\ Lob \in r.m_column_accessors
  BY DEF RsGetBlobStream, Reading, Only
<1>2. CASE x \in Failing(r, g)
  BY <1>2, FailingGood
<1>3. CASE x = Outcome(r, g, Ok)
  BY <1>3, Unmoved, Words
<1>4. CASE x = Outcome(q, g, Ok) /\ Lob \in r.m_column_accessors
  <2>1. r \in Objects /\ g.at \in Nat /\ IsOpen(r)
    BY DEF HandleFine, Handles, ResultFine, Live, Prefixed
  <2> DEFINE l == [r.lob EXCEPT !.stream = g.at]
  <2>2. r.lob \in [stream : Nat, cache : Nat, has : Nat]
    BY <2>1 DEF Objects
  <2>3. /\ l \in [stream : Nat, cache : Nat, has : Nat] /\ l.stream = g.at
        /\ l.cache = r.lob.cache /\ l.has = r.lob.has
    BY <2>1, <2>2
  <2>4. q = [r EXCEPT !.lob = l]
    BY <2>1 DEF Objects
  <2> HIDE DEF l, q
  <2>5. /\ q \in Objects /\ q.buf = r.buf /\ q.m_is_bound = r.m_is_bound
        /\ q.m_column_accessors = r.m_column_accessors
        /\ q.m_cursorstate = r.m_cursorstate /\ q.m_current_tuple = r.m_current_tuple
        /\ q.lob = l
    BY <2>1, <2>3, <2>4 DEF Objects
  <2>6. /\ Prefixed(q) /\ IsOpen(q) /\ Live(q)
        /\ g.cursor = "open" => Placed(q, g)
        /\ ~g.failed => g.cursor = "open"
    BY <2>1, <2>5
    DEF ResultFine, Prefixed, IsOpen, IsBad, IsEof, Positioned, Live, Placed
  <2>7. Attached(q, g, d)
    BY <1>4, <2>1, <2>5 DEF ResultFine, Attached, Unbound
  <2>8. ~g.failed => OfRow(q, d, g.at)
    BY <2>1, <2>3, <2>5 DEF ResultFine, OfRow, LobOf
  <2>9. ResultFine(q, g, d)
    BY <2>5, <2>6, <2>7, <2>8 DEF ResultFine
  <2>10. x.rs = q /\ x.h = g /\ x.ret = Ok
    BY <1>4 DEF Outcome
  <2> QED BY <2>9, <2>10, Words DEF Good
<1> QED BY <1>1, <1>2, <1>3, <1>4

\* A part of the LOB from a stream that was given out.
LEMMA ReadStreamGood ==
  ASSUME NEW r, NEW g, NEW d, ResultFine(r, g, d), HandleFine(g), r.lob # NoLob,
         NEW x \in RsReadStream(r, g, d)
  PROVE  Good(x, g, d)
<1>1. CASE r.lob.cache # NoRow
  <2>1. x = Outcome(r, g, Ok)
    BY <1>1 DEF RsReadStream, Only
  <2> QED BY <2>1, Unmoved, Words
<1>2. CASE r.lob.cache = NoRow
  <2>1. PICK y \in Gets(g, d.ext, Lob) :
          x = Outcome(r, y[1], IF y[2] = "ERROR" THEN Throw ELSE Ok)
    BY <1>2 DEF RsReadStream
  <2>2. Lob \in 1 .. Width /\ g \in Handles
    BY LibraryAssumption, WidthAssumption DEF HandleFine
  <2>3. Queried(y[1], g)
    BY <2>1, <2>2, Getting DEF Answers
  <2>4. x.rs = r /\ x.h = y[1] /\ x.ret \in {Throw, Ok}
    BY <2>1 DEF Outcome
  <2> QED BY <2>3, <2>4, QueriedFine, Words DEF Good
<1> QED BY <1>1, <1>2

-----------------------------------------------------------------------------
(* The accessors of a resultset                                            *)

\* The first accessor is there before the columns are asked for.
Beginning(r, g) ==
  Only([Cleared(r) EXCEPT !.m_column_accessors = {0}], g, Ok) \union Failing(Cleared(r), g)

\* The accessor of column c is bound where that can be, and then it is there.
Insert(outs, c) ==
  After(outs, LAMBDA q, k : Only([q EXCEPT !.m_column_accessors = @ \union {c}], k, Ok))

Bindings(q, k, d, c) == IF Bindable(d, c) THEN BindCol(q, k, d, c) ELSE Only(q, k, Ok)

Describe(q, k, d, c) == Failing(q, k) \union Insert(Bindings(q, k, d, c), c)

Inserted(x, y, c) ==
  IF y.ret = Ok
    THEN x.rs = [y.rs EXCEPT !.m_column_accessors = @ \union {c}] /\ x.h = y.h /\ x.ret = Ok
  ELSE x = y

LEMMA AfterInsert ==
  ASSUME NEW outs, NEW c, NEW x \in Insert(outs, c)
  PROVE  \E y \in outs : Inserted(x, y, c)
<1>1. PICK y \in outs :
        x \in IF y.ret = Ok THEN Only([y.rs EXCEPT !.m_column_accessors = @ \union {c}], y.h, Ok) ELSE {y}
  BY DEF Insert, After
<1> DEFINE q == [y.rs EXCEPT !.m_column_accessors = @ \union {c}]
<1>2. y.ret = Ok => x.rs = q /\ x.h = y.h /\ x.ret = Ok
  <2> HIDE DEF q
  <2>1. y.ret = Ok => x \in Only(q, y.h, Ok)
    BY <1>1 DEF q
  <2> QED BY <2>1 DEF Only, Outcome
<1>3. y.ret # Ok => x = y
  BY <1>1
<1> QED BY <1>2, <1>3 DEF Inserted

NextDescribed(outs, d, c) == After(outs, LAMBDA q, k : Describe(q, k, d, c))

LEMMA AfterDescribed ==
  ASSUME NEW outs, NEW d, NEW c, NEW x \in NextDescribed(outs, d, c)
  PROVE  \E o \in outs : IF o.ret = Ok THEN x \in Describe(o.rs, o.h, d, c) ELSE x = o
BY DEF NextDescribed, After

\* The outcomes after each column up to n.
Descriptions(f, r, g, d, n) ==
  f = [c \in 0 .. n |-> IF c = 0 THEN Beginning(r, g) ELSE NextDescribed(f[c - 1], d, c)]

LEMMA DescriptionsDefined ==
  ASSUME NEW r, NEW g, NEW d
  PROVE  \A n \in Nat : \E f : Descriptions(f, r, g, d, n)
<1> DEFINE T == {n \in Nat : ~\E f : Descriptions(f, r, g, d, n)}
<1>1. SUFFICES ASSUME T # {} PROVE FALSE
  OBVIOUS
<1>2. T \subseteq Nat
  OBVIOUS
<1> HIDE DEF T
<1>3. PICK m \in T : \A y \in T : m <= y
  BY <1>1, <1>2, LeastMember
<1>4. m \in Nat /\ ~\E f : Descriptions(f, r, g, d, m)
  BY <1>3 DEF T
<1>5. CASE m = 0
  <2> DEFINE f == [i \in 0 .. m |-> Beginning(r, g)]
  <2>1. \A i \in 0 .. m : i = 0
    BY <1>5
  <2>2. f = [i \in 0 .. m |-> IF i = 0 THEN Beginning(r, g) ELSE NextDescribed(f[i - 1], d, i)]
    BY <2>1
  <2>3. Descriptions(f, r, g, d, m)
    BY <2>2 DEF Descriptions
  <2> QED BY <1>4, <2>3
<1>6. CASE m # 0
  <2>1. m - 1 \in Nat /\ ~(m <= m - 1) /\ m \in 0 .. m
    BY <1>4, <1>6
  <2>2. m - 1 \notin T
    BY <1>3, <2>1
  <2>3. PICK f : Descriptions(f, r, g, d, m - 1)
    BY <2>1, <2>2 DEF T
  <2> DEFINE e == [i \in 0 .. m |-> IF i = m THEN NextDescribed(f[m - 1], d, m) ELSE f[i]]
  <2>4. \A i \in 0 .. m : i # m => i \in 0 .. m - 1
    BY <1>4
  <2>5. \A i \in 0 .. m : i # 0 => i - 1 \in 0 .. m /\ i - 1 # m /\ i - 1 \in 0 .. m - 1
    BY <1>4
  <2>6. \A i \in 0 .. m : e[i] = IF i = m THEN NextDescribed(f[m - 1], d, m) ELSE f[i]
    OBVIOUS
  <2>7. e = [i \in 0 .. m |-> e[i]]
    OBVIOUS
  <2> HIDE DEF e
  <2>8. ASSUME NEW i \in 0 .. m
        PROVE  e[i] = IF i = 0 THEN Beginning(r, g) ELSE NextDescribed(e[i - 1], d, i)
    <3>1. CASE i = m
      <4>1. e[i - 1] = f[m - 1]
        BY <1>6, <2>5, <2>6, <3>1
      <4> QED BY <1>6, <2>6, <3>1, <4>1
    <3>2. CASE i # m
      <4>1. e[i] = f[i] /\ i \in 0 .. m - 1
        BY <2>4, <2>6, <3>2
      <4>2. f[i] = IF i = 0 THEN Beginning(r, g) ELSE NextDescribed(f[i - 1], d, i)
        BY <2>3, <4>1 DEF Descriptions
      <4>3. i # 0 => e[i - 1] = f[i - 1]
        BY <2>5, <2>6
      <4> QED BY <4>1, <4>2, <4>3
    <3> QED BY <3>1, <3>2
  <2>9. Descriptions(e, r, g, d, m)
    BY <2>7, <2>8 DEF Descriptions
  <2> QED BY <1>4, <2>9
<1> QED BY <1>5, <1>6

\* A handle for which columns were bound, and nothing else.
Binding(k, g) ==
  /\ k \in Handles
  /\ k.live = g.live /\ k.text = g.text /\ k.cursor = g.cursor /\ k.at = g.at
  /\ k.failed = g.failed

\* An outcome after the columns up to c.
Described(x, r, g, d, c) ==
  /\ x.ret \in {Ok, Throw}
  /\ x.rs \in Objects /\ x.rs.m_cursorstate = r.m_cursorstate
  /\ x.rs.m_current_tuple = r.m_current_tuple /\ x.rs.lob = NoLob
  /\ x.rs.m_column_accessors \subseteq 0 .. c
  /\ Lob \notin x.rs.m_is_bound
  /\ Binding(x.h, g)
  /\ x.h.bound \subseteq 1 .. c /\ x.h.bound \subseteq x.rs.m_is_bound \union {Lob}
  /\ \A b \in Unbound(x.rs) : Reachable(x.h, d, b)
  /\ x.ret = Ok => \A b \in Unbound(x.rs) : b >= Lob

\* The members of an object with other accessors.
LEMMA WithAccessors ==
  ASSUME NEW q \in Objects, NEW A \in SUBSET (0 .. Width)
  PROVE  LET p == [q EXCEPT !.m_column_accessors = A]
         IN  /\ p \in Objects /\ p.m_column_accessors = A /\ p.m_is_bound = q.m_is_bound
             /\ p.m_cursorstate = q.m_cursorstate /\ p.m_current_tuple = q.m_current_tuple
             /\ p.lob = q.lob
BY DEF Objects

LEMMA WithBound ==
  ASSUME NEW q \in Objects, NEW A \in SUBSET (1 .. Width)
  PROVE  LET p == [q EXCEPT !.m_is_bound = A]
         IN  /\ p \in Objects /\ p.m_is_bound = A /\ p.m_column_accessors = q.m_column_accessors
             /\ p.m_cursorstate = q.m_cursorstate /\ p.m_current_tuple = q.m_current_tuple
             /\ p.lob = q.lob
BY DEF Objects

LEMMA WithColumns ==
  ASSUME NEW g \in Handles, NEW B \in SUBSET (1 .. Width)
  PROVE  LET k == [g EXCEPT !.bound = B]
         IN  Binding(k, g) /\ k.bound = B
BY DEF Handles, Binding

\* The accessor c is made after those up to c - 1.
LEMMA Describing ==
  ASSUME NEW r, NEW g \in Handles, NEW d, Able(d), NEW c \in 1 .. Width,
         NEW o, Described(o, r, g, d, c - 1), o.ret = Ok,
         NEW x \in Describe(o.rs, o.h, d, c)
  PROVE  Described(x, r, g, d, c)
<1> DEFINE made  == [o.rs EXCEPT !.m_column_accessors = o.rs.m_column_accessors \union {c}]
           bound == [o.h EXCEPT !.bound = o.h.bound \union {c}]
           kept  == [o.rs EXCEPT !.m_is_bound = o.rs.m_is_bound \union {c}]
           both  == [kept EXCEPT !.m_column_accessors = o.rs.m_column_accessors \union {c}]
<1>1. /\ c \in Nat /\ Lob \in Nat \ {0} /\ o.rs \in Objects /\ o.h \in Handles
      /\ Binding(o.h, g) /\ o.rs.m_column_accessors \subseteq 0 .. c - 1
      /\ o.h.bound \subseteq 1 .. c - 1 /\ o.h.bound \subseteq o.rs.m_is_bound \union {Lob}
      /\ o.rs.m_is_bound \in SUBSET (1 .. Width) /\ Width \in Nat
  <2>1. o.rs.m_is_bound \in SUBSET (1 .. Width)
    BY DEF Described, Objects
  <2> QED BY <2>1, LibraryAssumption, WidthAssumption DEF Described, Binding
<1>2. /\ o.rs.m_column_accessors \union {c} \in SUBSET (0 .. Width)
      /\ o.rs.m_is_bound \union {c} \in SUBSET (1 .. Width)
      /\ o.h.bound \union {c} \in SUBSET (1 .. Width)
      /\ o.h.bound \union {c} \subseteq 1 .. c
      /\ o.h.bound \subseteq 1 .. c
      /\ o.rs.m_column_accessors \union {c} \subseteq 0 .. c
      /\ o.rs.m_column_accessors \subseteq 0 .. c
  BY <1>1
<1>3. /\ made \in Objects /\ made.m_column_accessors = o.rs.m_column_accessors \union {c}
      /\ made.m_is_bound = o.rs.m_is_bound /\ made.m_cursorstate = o.rs.m_cursorstate
      /\ made.m_current_tuple = o.rs.m_current_tuple /\ made.lob = o.rs.lob
  BY <1>1, <1>2, WithAccessors
<1>4. Binding(bound, o.h) /\ bound.bound = o.h.bound \union {c} /\ Binding(bound, g)
  <2>1. Binding(bound, o.h) /\ bound.bound = o.h.bound \union {c}
    BY <1>1, <1>2, WithColumns
  <2> HIDE DEF bound
  <2> QED BY <1>1, <2>1 DEF Binding
<1>5. [o.rs EXCEPT !.m_column_accessors = @ \union {c}] = made
  OBVIOUS
<1>6. [o.h EXCEPT !.bound = @ \union {c}] = bound
  OBVIOUS
<1>7. /\ [o.rs EXCEPT !.m_is_bound = @ \union {c}] = kept
      /\ kept \in Objects /\ kept.m_is_bound = o.rs.m_is_bound \union {c}
      /\ kept.m_column_accessors = o.rs.m_column_accessors
      /\ kept.m_cursorstate = o.rs.m_cursorstate
      /\ kept.m_current_tuple = o.rs.m_current_tuple /\ kept.lob = o.rs.lob
  BY <1>1, <1>2, WithBound
<1>8. /\ [kept EXCEPT !.m_column_accessors = @ \union {c}] = both
      /\ both \in Objects /\ both.m_is_bound = o.rs.m_is_bound \union {c}
      /\ both.m_column_accessors = o.rs.m_column_accessors \union {c}
      /\ both.m_cursorstate = o.rs.m_cursorstate
      /\ both.m_current_tuple = o.rs.m_current_tuple /\ both.lob = o.rs.lob
  <2> HIDE DEF kept
  <2> QED BY <1>2, <1>7, WithAccessors
<1>9. \/ x \in Failing(o.rs, o.h)
      \/ x \in Insert(Bindings(o.rs, o.h, d, c), c)
  BY DEF Describe
<1>10. \/ x.rs = o.rs /\ x.h = o.h /\ x.ret = Throw
       \/ ~Bindable(d, c) /\ x.rs = made /\ x.h = o.h /\ x.ret = Ok
       \/ Bindable(d, c) /\ c = Lob /\ d.deferred /\ x.rs = made /\ x.h = bound /\ x.ret = Ok
       \/ Bindable(d, c) /\ c = Lob /\ ~d.deferred /\ x.rs = made /\ x.h = o.h /\ x.ret = Ok
       \/ Bindable(d, c) /\ c # Lob /\ x.rs = both /\ x.h = bound /\ x.ret = Ok
  <2>1. BindCol(o.rs, o.h, d, c) =
          IF c = Lob
            THEN Only(o.rs, IF d.deferred THEN bound ELSE o.h, Ok)
                   \union {y \in Failing(o.rs, o.h) : d.deferred}
          ELSE Only(kept, bound, Ok) \union Failing(o.rs, o.h)
    BY <1>6, <1>7 DEF BindCol
  <2> HIDE DEF made, bound, kept, both
  <2>2. \A q, k : /\ \A y \in Failing(q, k) : y.rs = q /\ y.h = k /\ y.ret = Throw
                  /\ \A y \in Only(q, k, Ok) : y.rs = q /\ y.h = k /\ y.ret = Ok
    BY DEF Failing, Only, Outcome
  <2>3. CASE x \in Failing(o.rs, o.h)
    BY <2>2, <2>3
  <2>4. CASE x \in Insert(Bindings(o.rs, o.h, d, c), c)
    <3>1. PICK y \in Bindings(o.rs, o.h, d, c) : Inserted(x, y, c)
      BY <2>4, AfterInsert
    <3>2. IF y.ret = Ok
            THEN x.rs = [y.rs EXCEPT !.m_column_accessors = @ \union {c}] /\ x.h = y.h /\ x.ret = Ok
          ELSE x = y
      BY <3>1 DEF Inserted
    <3>3. CASE ~Bindable(d, c)
      <4>1. y.rs = o.rs /\ y.h = o.h /\ y.ret = Ok
        BY <2>2, <3>1, <3>3 DEF Bindings
      <4> QED BY <1>5, <3>2, <3>3, <4>1
    <3>4. CASE Bindable(d, c) /\ c = Lob
      <4>1. \/ y.rs = o.rs /\ y.h = o.h /\ y.ret = Throw
            \/ y.rs = o.rs /\ y.h = (IF d.deferred THEN bound ELSE o.h) /\ y.ret = Ok
        BY <2>1, <2>2, <3>1, <3>4 DEF Bindings
      <4> QED BY <1>5, <3>2, <3>4, <4>1, Words
    <3>5. CASE Bindable(d, c) /\ c # Lob
      <4>1. \/ y.rs = o.rs /\ y.h = o.h /\ y.ret = Throw
            \/ y.rs = kept /\ y.h = bound /\ y.ret = Ok
        BY <2>1, <2>2, <3>1, <3>5 DEF Bindings
      <4> QED BY <1>8, <3>2, <3>5, <4>1, Words
    <3> QED BY <3>3, <3>4, <3>5
  <2> QED BY <1>9, <2>3, <2>4
<1> HIDE DEF made, bound, kept, both
<1>11. Unbound(made) \subseteq Unbound(o.rs) \union {c} /\ Unbound(both) \subseteq Unbound(o.rs)
  BY <1>3, <1>8 DEF Unbound
<1>12. Reachable(o.h, d, c)
  <2>1. c \notin o.h.bound /\ \A b \in o.h.bound : b < c
    BY <1>1
  <2> QED BY <2>1 DEF Reachable
<1>13. \A b \in Unbound(o.rs) : Reachable(o.h, d, b) /\ b >= Lob /\ b <= c - 1 /\ b # c
  <2>1. \A b \in Unbound(o.rs) : b \in 0 .. c - 1
    BY <1>1 DEF Unbound
  <2>2. \A b \in Unbound(o.rs) : b <= c - 1 /\ b # c
    BY <1>1, <2>1
  <2> QED BY <2>2 DEF Described
<1>14. CASE x.rs = o.rs /\ x.h = o.h /\ x.ret = Throw
  BY <1>2, <1>14, Words DEF Described
<1>15. CASE x.rs = made /\ x.h = o.h /\ x.ret = Ok /\ c >= Lob
  BY <1>1, <1>2, <1>3, <1>11, <1>12, <1>13, <1>15, Words DEF Described
<1>16. CASE c = Lob /\ d.deferred /\ x.rs = made /\ x.h = bound /\ x.ret = Ok
  <2>1. d.ext = {"ANY_COLUMN", "ANY_ORDER", "BOUND"}
    BY <1>16 DEF Able, Extensions
  <2>2. \A b : Reachable(bound, d, b)
    BY <2>1 DEF Reachable
  <2>3. bound.bound \subseteq made.m_is_bound \union {Lob}
    BY <1>1, <1>3, <1>4, <1>16
  <2>4. c >= Lob
    BY <1>1, <1>16
  <2> QED BY <1>1, <1>2, <1>3, <1>4, <1>11, <1>13, <1>16, <2>2, <2>3, <2>4, Words DEF Described
<1>17. CASE Bindable(d, c) /\ c # Lob /\ x.rs = both /\ x.h = bound /\ x.ret = Ok
  <2>1. ASSUME NEW b \in Unbound(o.rs) PROVE Reachable(bound, d, b)
    <3>1. Reachable(o.h, d, b) /\ b >= Lob /\ b <= c - 1 /\ b # c /\ b \in Nat
      BY <1>1, <1>13 DEF Unbound
    <3>2. ~(c <= Lob)
      BY <1>1, <3>1
    <3>3. "ANY_COLUMN" \in d.ext
      BY <1>17, <3>2 DEF Bindable
    <3> QED BY <1>4, <3>1, <3>3 DEF Reachable
  <2>2. bound.bound \subseteq both.m_is_bound \union {Lob} /\ Lob \notin both.m_is_bound
    BY <1>1, <1>4, <1>8, <1>17 DEF Described
  <2> QED BY <1>1, <1>2, <1>4, <1>8, <1>11, <1>13, <1>17, <2>1, <2>2, Words DEF Described
<1>18. ~Bindable(d, c) => c >= Lob
  BY <1>1 DEF Bindable
<1>19. c = Lob => c >= Lob
  BY <1>1
<1> QED BY <1>10, <1>14, <1>15, <1>16, <1>17, <1>18, <1>19

LEMMA ClearedFacts ==
  ASSUME NEW r \in Objects
  PROVE  LET q == Cleared(r)
         IN  /\ q \in Objects /\ q.m_column_accessors = {} /\ q.m_is_bound = {} /\ q.lob = NoLob
             /\ q.m_cursorstate = r.m_cursorstate /\ q.m_current_tuple = r.m_current_tuple
             /\ q.buf = r.buf
<1> DEFINE a == [r EXCEPT !.m_column_accessors = {}]
           b == [a EXCEPT !.m_is_bound = {}]
           c == [b EXCEPT !.lob = NoLob]
<1>1. /\ a \in Objects /\ a.m_column_accessors = {} /\ a.m_cursorstate = r.m_cursorstate
      /\ a.m_current_tuple = r.m_current_tuple /\ a.buf = r.buf
  BY DEF Objects
<1>2. /\ b \in Objects /\ b.m_column_accessors = {} /\ b.m_cursorstate = r.m_cursorstate
      /\ b.m_current_tuple = r.m_current_tuple /\ b.buf = r.buf /\ b.m_is_bound = {}
  <2> HIDE DEF a
  <2> QED BY <1>1 DEF Objects
<1>3. NoLob \in [stream : Nat, cache : Nat, has : Nat]
  BY DEF NoLob, NoRow
<1>4. /\ c \in Objects /\ c.m_column_accessors = {} /\ c.m_cursorstate = r.m_cursorstate
      /\ c.m_current_tuple = r.m_current_tuple /\ c.buf = r.buf /\ c.m_is_bound = {}
      /\ c.lob = NoLob
  <2> HIDE DEF b
  <2> QED BY <1>2, <1>3 DEF Objects
<1>5. Cleared(r) = c
  BY DEF Cleared
<1> QED BY <1>4, <1>5

LEMMA DescriptionsSound ==
  ASSUME NEW r \in Objects, NEW g \in Handles, g.bound = {}, NEW d, Able(d),
         NEW n \in 0 .. Width, NEW f, Descriptions(f, r, g, d, n)
  PROVE  \A c \in 0 .. n : \A x \in f[c] : Described(x, r, g, d, c)
<1> DEFINE T == {c \in 0 .. n : ~\A x \in f[c] : Described(x, r, g, d, c)}
<1>1. SUFFICES ASSUME T # {} PROVE FALSE
  OBVIOUS
<1>2. T \subseteq Nat
  OBVIOUS
<1> HIDE DEF T
<1>3. PICK m \in T : \A y \in T : m <= y
  BY <1>1, <1>2, LeastMember
<1>4. PICK x \in f[m] : ~Described(x, r, g, d, m)
  BY <1>3 DEF T
<1>5. m \in 0 .. n /\ m \in Nat
  BY <1>2, <1>3 DEF T
<1>6. f[m] = IF m = 0 THEN Beginning(r, g) ELSE NextDescribed(f[m - 1], d, m)
  BY <1>5 DEF Descriptions
<1>7. CASE m = 0
  <2> DEFINE q == Cleared(r)
             p == [q EXCEPT !.m_column_accessors = {0}]
  <2>1. /\ q \in Objects /\ q.m_column_accessors = {} /\ q.m_is_bound = {} /\ q.lob = NoLob
        /\ q.m_cursorstate = r.m_cursorstate /\ q.m_current_tuple = r.m_current_tuple
    BY ClearedFacts
  <2>2. x \in Only(p, g, Ok) \union Failing(q, g)
    BY <1>4, <1>6, <1>7 DEF Beginning
  <2> HIDE DEF q
  <2>3. {0} \in SUBSET (0 .. Width)
    BY WidthAssumption
  <2>4. /\ p \in Objects /\ p.m_column_accessors = {0} /\ p.m_is_bound = {} /\ p.lob = NoLob
        /\ p.m_cursorstate = r.m_cursorstate /\ p.m_current_tuple = r.m_current_tuple
    BY <2>1, <2>3, WithAccessors
  <2> HIDE DEF p
  <2>5. Unbound(q) = {} /\ Unbound(p) = {}
    BY <2>1, <2>4 DEF Unbound
  <2>6. x.h = g /\ x.rs \in {p, q} /\ x.ret \in {Ok, Throw}
    BY <2>2 DEF Only, Failing, Outcome
  <2>7. Binding(g, g)
    BY DEF Binding
  <2> QED BY <1>4, <1>7, <2>1, <2>4, <2>5, <2>6, <2>7 DEF Described
<1>8. CASE m # 0
  <2>1. m - 1 \in 0 .. n /\ ~(m <= m - 1) /\ m \in 1 .. Width
    BY <1>5, <1>8, WidthAssumption
  <2>2. \A y \in f[m - 1] : Described(y, r, g, d, m - 1)
    BY <1>3, <2>1 DEF T
  <2>3. x \in NextDescribed(f[m - 1], d, m)
    BY <1>4, <1>6, <1>8
  <2>4. PICK o \in f[m - 1] : IF o.ret = Ok THEN x \in Describe(o.rs, o.h, d, m) ELSE x = o
    BY <2>3, AfterDescribed
  <2>5. Described(o, r, g, d, m - 1)
    BY <2>2
  <2>6. CASE o.ret = Ok
    BY <1>4, <2>1, <2>4, <2>5, <2>6, Describing
  <2>7. CASE o.ret # Ok
    <3>1. x = o /\ 0 .. m - 1 \subseteq 0 .. m /\ 1 .. m - 1 \subseteq 1 .. m
      BY <1>5, <2>4, <2>7
    <3> QED BY <1>4, <2>5, <2>7, <3>1 DEF Described
  <2> QED BY <2>6, <2>7
<1> QED BY <1>7, <1>8

\* refreshMetadata() makes accessors the driver can give data for.
LEMMA RefreshMetadataSound ==
  ASSUME NEW r \in Objects, NEW g \in Handles, g.bound = {}, NEW d, Able(d),
         NEW x \in RefreshMetadata(r, g, d)
  PROVE  Described(x, r, g, d, Width) /\ Attached(x.rs, x.h, d)
<1> DEFINE n == ColumnCount(g)
           f == CHOOSE e : Descriptions(e, r, g, d, n)
<1>1. x \in f[n]
  BY DEF RefreshMetadata, Descriptions, NextDescribed, Beginning, Describe, Insert, Bindings
<1>2. n \in 0 .. Width /\ n \in Nat /\ n \in 0 .. n
  BY WidthAssumption DEF ColumnCount
<1>3. Descriptions(f, r, g, d, n)
  BY <1>2, DescriptionsDefined
<1> HIDE DEF f, n
<1>4. \A c \in 0 .. n : \A y \in f[c] : Described(y, r, g, d, c)
  BY <1>2, <1>3, DescriptionsSound
<1>5. Described(x, r, g, d, n)
  BY <1>1, <1>2, <1>4
<1>6. 0 .. n \subseteq 0 .. Width /\ 1 .. n \subseteq 1 .. Width
  BY <1>2, WidthAssumption
<1>7. Described(x, r, g, d, Width)
  BY <1>5, <1>6 DEF Described
<1> QED BY <1>5, <1>7 DEF Described, Attached

-----------------------------------------------------------------------------
(* The end and the beginning of a resultset                                *)

\* reset() of a resultset, in every state, drops what was bound.
ResetTo(r, g, x) ==
  /\ x.rs \in Objects /\ x.rs.m_cursorstate = r.m_cursorstate
  /\ x.rs.m_current_tuple = r.m_current_tuple
  /\ x.h \in Handles /\ x.h.live = g.live /\ x.h.cursor = "none" /\ x.h.bound = {}

LEMMA FreedFacts ==
  ASSUME NEW g \in Handles
  PROVE  LET k == Freed(g)
         IN  k \in Handles /\ k.live = g.live /\ k.cursor = "none" /\ k.bound = {}
<1> DEFINE a == [g EXCEPT !.cursor = "none"]
           b == [a EXCEPT !.at = NoRow]
           c == [b EXCEPT !.bound = {}]
<1>1. a \in Handles /\ a.live = g.live /\ a.cursor = "none"
  BY DEF Handles
<1>2. b \in Handles /\ b.live = g.live /\ b.cursor = "none"
  <2> HIDE DEF a
  <2> QED BY <1>1 DEF Handles, NoRow
<1>3. c \in Handles /\ c.live = g.live /\ c.cursor = "none" /\ c.bound = {}
  <2> HIDE DEF b
  <2> QED BY <1>2 DEF Handles
<1>4. Freed(g) = c
  BY DEF Freed
<1> QED BY <1>3, <1>4

LEMMA ResetIs ==
  ASSUME NEW r \in Objects, NEW g, HandleFine(g), g.live, NEW x \in RsReset(r, g)
  PROVE  x.ret = Ok /\ ResetTo(r, g, x)
<1>1. Freeable(g) /\ g \in Handles
  BY DEF Freeable, HandleFine
<1>2. x.rs = Cleared(r) /\ x.h = Freed(g) /\ x.ret = Ok
  BY <1>1 DEF RsReset, Only, Outcome
<1> QED BY <1>1, <1>2, ClearedFacts, FreedFacts DEF ResetTo

\* The destructor does not throw: the handle does not wait.
LEMMA DestroyIs ==
  ASSUME NEW r \in Objects, NEW g, HandleFine(g), g.live, NEW x \in RsDestroy(r, g)
  PROVE  x.ret = Ok /\ ResetTo(r, g, x)
<1> DEFINE q == Cleared(r)
<1>1. q \in Objects /\ q.m_cursorstate = r.m_cursorstate /\ q.m_current_tuple = r.m_current_tuple
  BY ClearedFacts
<1>2. PICK o \in RsReset(q, g) : x = [o EXCEPT !.ret = IF @ = Throw THEN Abort ELSE @]
  BY DEF RsDestroy
<1> HIDE DEF q
<1>3. o.ret = Ok /\ ResetTo(q, g, o)
  BY <1>1, ResetIs
<1>4. \E a, b, c : o = Outcome(a, b, c)
  BY DEF RsReset, Only, Failing
<1>5. x.rs = o.rs /\ x.h = o.h /\ x.ret = Ok
  BY <1>2, <1>3, <1>4, Words DEF Outcome
<1> QED BY <1>1, <1>3, <1>5 DEF ResetTo

LEMMA InitObject ==
  /\ ResultInit \in Objects
  /\ ~IsOpen(ResultInit) /\ ~IsBad(ResultInit) /\ ~IsPrepared(ResultInit)
  /\ ~Positioned(ResultInit) /\ ~IsEof(ResultInit)
  /\ ResultInit.m_cursorstate = CLOSED /\ ResultInit.m_current_tuple = 0
<1>1. /\ ResultInit.m_cursorstate = {} /\ ResultInit.m_current_tuple = 0
      /\ ResultInit.m_column_accessors = {} /\ ResultInit.m_is_bound = {}
  BY DEF ResultInit, CLOSED
<1>2. ResultInit \in Objects
  <2> DEFINE b == [c \in 1 .. Width |-> NoRow]
  <2>1. b \in [1 .. Width -> Nat]
    BY DEF NoRow
  <2>2. NoLob \in [stream : Nat, cache : Nat, has : Nat]
    BY DEF NoLob, NoRow
  <2>3. ResultInit = [m_cursorstate |-> {}, m_current_tuple |-> 0, m_column_accessors |-> {},
                      m_is_bound |-> {}, buf |-> b, lob |-> NoLob]
    BY DEF ResultInit, CLOSED
  <2> HIDE DEF b
  <2> QED BY <2>1, <2>2, <2>3 DEF Objects
<1> QED BY <1>1, <1>2 DEF IsOpen, IsBad, IsPrepared, Positioned, IsEof, CLOSED

\* A resultset that is not open needs no more than a handle with nothing bound.
LEMMA NotOpenFine ==
  ASSUME NEW r \in Objects, NEW g, NEW d, ~IsBad(r), ~IsOpen(r), ~Positioned(r), ~IsEof(r),
         g.bound = {}
  PROVE  ResultFine(r, g, d)
BY DEF ResultFine, Prefixed

\* SQLPrepare() changes the text of a handle.
LEMMA Preparing ==
  ASSUME NEW g, HandleFine(g), NEW sql \in Queries, NEW p \in Prepares(g, sql)
  PROVE  /\ p[1] \in Handles /\ p[1].live = g.live /\ p[1].cursor = g.cursor
         /\ p[1].bound = g.bound
<1> DEFINE a == [g EXCEPT !.text = NoQuery]
           b == [g EXCEPT !.text = sql]
<1>1. /\ a \in Handles /\ a.live = g.live /\ a.cursor = g.cursor /\ a.bound = g.bound
      /\ b \in Handles /\ b.live = g.live /\ b.cursor = g.cursor /\ b.bound = g.bound
  BY DEF HandleFine, Handles
<1>2. p[1] \in {a, b, g}
  BY DEF Prepares
<1> HIDE DEF a, b
<1> QED BY <1>1, <1>2 DEF HandleFine

\* prepare() of a new resultset.
LEMMA PrepareGood ==
  ASSUME NEW g, HandleFine(g), g.bound = {}, NEW d, NEW c, NEW sql \in Queries,
         NEW x \in RsPrepare(ResultInit, g, c, sql)
  PROVE  Good(x, g, d)
<1> DEFINE r == ResultInit
<1>1. ResultFine(r, g, d) /\ ~IsBad(r) /\ ~IsPrepared(r) /\ r \in Objects
  BY InitObject, NotOpenFine
<1> HIDE DEF r
<1>2. CASE ~c
  BY <1>1, <1>2, FailingGood DEF RsPrepare, r
<1>3. CASE ~~c
  <2>1. PICK p \in Prepares(g, sql) :
          x = IF p[2] = "OK" THEN Outcome(SetState(r, "PREPARED"), p[1], Ok)
              ELSE Outcome(r, p[1], Throw)
    <3>1. x \in After(Only(r, g, Ok),
                      LAMBDA q, k : {IF p[2] = "OK" THEN Outcome(SetState(q, "PREPARED"), p[1], Ok)
                                     ELSE Outcome(q, p[1], Throw) : p \in Prepares(k, sql)})
      BY <1>1, <1>3 DEF RsPrepare, r
    <3> QED BY <3>1 DEF After, Only, Outcome
  <2>2. /\ p[1] \in Handles /\ p[1].live = g.live /\ p[1].cursor = g.cursor
        /\ p[1].bound = {}
    BY Preparing
  <2>3. HandleFine(p[1])
    BY <2>2 DEF HandleFine
  <2> DEFINE q == SetState(r, "PREPARED")
  <2>4. q \in Objects /\ ~IsOpen(q) /\ ~Positioned(q) /\ ~IsEof(q) /\ ~IsBad(q)
    BY <1>1, States DEF Alike
  <2> HIDE DEF q
  <2>5. ResultFine(q, p[1], d)
    BY <2>2, <2>4, NotOpenFine
  <2>6. ResultFine(r, p[1], d)
    BY <2>2, InitObject, NotOpenFine DEF r
  <2>7. x.rs \in {q, r} /\ x.h = p[1] /\ x.ret \in {Ok, Throw}
    BY <2>1 DEF q, Outcome
  <2> QED BY <2>2, <2>3, <2>5, <2>6, <2>7, Words DEF Good
<1> QED BY <1>2, <1>3

-----------------------------------------------------------------------------
(* What the driver executes                                                *)

\* A query was run: nothing is bound that was not, and a new cursor is before
\* the first row.
Ran(e, k, g) ==
  /\ Settled(e.conn)
  /\ e.h \in Handles /\ e.h.live = g.live /\ e.h.bound = g.bound
  /\ e.h.cursor \in {"none", "open"}
  /\ e.h.cursor = "open" => e.h.at = NoRow
  /\ e.code \in {"OK", "NO_DATA"}
  /\ e.code = "NO_DATA" => e.h.cursor = "none"

LEMMA Completing ==
  ASSUME NEW k, Settled(k), NEW g \in Handles, NEW e \in Completions(k, g)
  PROVE  Ran(e, k, g)
<1> DEFINE a == [g EXCEPT !.cursor = "open"]
           b == [a EXCEPT !.at = NoRow]
           c == [b EXCEPT !.got = 0]
           f == [c EXCEPT !.part = 0]
           s == [f EXCEPT !.failed = FALSE]
           n == [g EXCEPT !.cursor = "none"]
           p == [k EXCEPT !.work = "pending"]
           q == [p EXCEPT !.asked = "none"]
<1>1. a \in Handles /\ a.live = g.live /\ a.bound = g.bound /\ a.cursor = "open"
  BY DEF Handles
<1>2. /\ b \in Handles /\ b.live = g.live /\ b.bound = g.bound /\ b.cursor = "open"
      /\ b.at = NoRow
  <2> HIDE DEF a
  <2> QED BY <1>1 DEF Handles, NoRow
<1>3. /\ c \in Handles /\ c.live = g.live /\ c.bound = g.bound /\ c.cursor = "open"
      /\ c.at = NoRow
  <2> HIDE DEF b
  <2> QED BY <1>2 DEF Handles
<1>4. /\ f \in Handles /\ f.live = g.live /\ f.bound = g.bound /\ f.cursor = "open"
      /\ f.at = NoRow
  <2> HIDE DEF c
  <2> QED BY <1>3 DEF Handles
<1>5. /\ s \in Handles /\ s.live = g.live /\ s.bound = g.bound /\ s.cursor = "open"
      /\ s.at = NoRow
  <2> HIDE DEF f
  <2> QED BY <1>4 DEF Handles
<1>6. n \in Handles /\ n.live = g.live /\ n.bound = g.bound /\ n.cursor = "none"
  BY DEF Handles
<1>7. p \in Conns /\ p.work = "pending"
  BY DEF Settled, Conns
<1>8. q \in Conns /\ q.work = "pending"
  <2> HIDE DEF p
  <2> QED BY <1>7 DEF Conns
<1>9. Settled(q)
  <2> HIDE DEF q
  <2> QED BY <1>8 DEF Settled
<1>10. /\ [g EXCEPT !.cursor = "open", !.at = NoRow, !.got = 0, !.part = 0, !.failed = FALSE] = s
       /\ [k EXCEPT !.work = "pending", !.asked = "none"] = q
  OBVIOUS
<1> HIDE DEF a, b, c, f, p
<1> HIDE DEF s, n, q
<1>11. \/ e = Execution(k, s, "OK")
       \/ e = Execution(k, n, "NO_DATA")
       \/ e = Execution(k, n, "OK")
       \/ e = Execution(q, n, "OK")
  BY <1>10 DEF Completions, n
<1> QED BY <1>5, <1>6, <1>9, <1>11 DEF Ran, Execution

-----------------------------------------------------------------------------
(* The part of the world that a method of the statement changes            *)

Worlds == [conn : Conns, h : Handles, st : Statements]

\* Between two calls of a client that keeps the protocol.
WorldFine(w, d) ==
  /\ w \in Worlds /\ Settled(w.conn) /\ StmtFine(w.st, w.h, d) /\ w.st.alive

\* What a method of the statement leaves.
Fair(o, d) == GoesOn(o.ret) /\ WorldFine(o.w, d)

\* One resultset, and all else as it was.
Put(v, w, q, k) ==
  /\ v \in Worlds
  /\ v.conn = w.conn /\ v.h = k /\ v.st.m_resultsets = <<q>>
  /\ v.st.alive = w.st.alive /\ v.st.m_params = w.st.m_params

LEMMA GivesFacts ==
  ASSUME NEW w, NEW r, NEW o \in Gives(w, r)
  PROVE  o.w = w /\ o.ret = r
BY DEF Gives

\* A world with another statement in it.
LEMMA WithStmt ==
  ASSUME NEW w \in Worlds, NEW s \in Statements
  PROVE  LET v == [w EXCEPT !.st = s]
         IN  v \in Worlds /\ v.st = s /\ v.conn = w.conn /\ v.h = w.h
BY DEF Worlds

LEMMA WithHandle ==
  ASSUME NEW w \in Worlds, NEW k \in Handles
  PROVE  LET v == [w EXCEPT !.h = k]
         IN  v \in Worlds /\ v.st = w.st /\ v.conn = w.conn /\ v.h = k
BY DEF Worlds

\* A statement with one resultset.
LEMMA WithResult ==
  ASSUME NEW s \in Statements, NEW a \in Seq(Objects)
  PROVE  LET v == [s EXCEPT !.m_resultsets = a]
         IN  /\ v \in Statements /\ v.m_resultsets = a /\ v.alive = s.alive
             /\ v.m_params = s.m_params
BY DEF Statements

LEMMA OneResult ==
  ASSUME NEW s \in Statements, NEW q \in Objects, Len(s.m_resultsets) = 1
  PROVE  /\ <<q>> \in Seq(Objects)
         /\ [s EXCEPT !.m_resultsets[1] = q] = [s EXCEPT !.m_resultsets = <<q>>]
         /\ s.m_resultsets[1] \in Objects
<1>1. s.m_resultsets \in Seq(Objects)
  BY DEF Statements
<1>2. DOMAIN s.m_resultsets = {1}
  BY <1>1, 1 .. 1 = {1}
<1>3. s.m_resultsets[1] \in Objects
  BY <1>1
<1>4. s.m_resultsets = [i \in {1} |-> s.m_resultsets[i]]
  BY <1>1, <1>2
<1>5. <<q>> = [i \in {1} |-> q] /\ <<q>> \in Seq(Objects)
  BY 1 .. 1 = {1}
<1>6. [s.m_resultsets EXCEPT ![1] = q] = <<q>>
  BY <1>2, <1>4, <1>5
<1>7. [s EXCEPT !.m_resultsets[1] = q] = [s EXCEPT !.m_resultsets = <<q>>]
  <2>1. [s EXCEPT !.m_resultsets[1] = q] = [s EXCEPT !.m_resultsets = [s.m_resultsets EXCEPT ![1] = q]]
    BY DEF Statements
  <2> QED BY <1>6, <2>1
<1> QED BY <1>3, <1>5, <1>7

LEMMA Putting ==
  ASSUME NEW w \in Worlds, Len(w.st.m_resultsets) = 1, NEW q \in Objects, NEW k \in Handles
  PROVE  Put([w EXCEPT !.h = k, !.st.m_resultsets[1] = q], w, q, k)
<1> DEFINE s == [w.st EXCEPT !.m_resultsets[1] = q]
           u == [w EXCEPT !.h = k]
           v == [u EXCEPT !.st = s]
<1>1. w.st \in Statements
  BY DEF Worlds
<1>2. s = [w.st EXCEPT !.m_resultsets = <<q>>] /\ <<q>> \in Seq(Objects)
  BY <1>1, OneResult
<1>3. [w EXCEPT !.h = k, !.st.m_resultsets[1] = q] = v
  BY DEF Worlds
<1> HIDE DEF s
<1>4. /\ s \in Statements /\ s.m_resultsets = <<q>> /\ s.alive = w.st.alive
      /\ s.m_params = w.st.m_params
  BY <1>1, <1>2, WithResult
<1>5. u \in Worlds /\ u.conn = w.conn /\ u.h = k
  BY WithHandle
<1> HIDE DEF u
<1>6. v \in Worlds /\ v.st = s /\ v.conn = u.conn /\ v.h = u.h
  BY <1>4, <1>5, WithStmt
<1> HIDE DEF v
<1> QED BY <1>3, <1>4, <1>5, <1>6 DEF Put

\* A method of the only resultset, as a method of the statement.
LEMMA OfIs ==
  ASSUME NEW w \in Worlds, Len(w.st.m_resultsets) = 1, NEW outs,
         \A o \in outs : o.rs \in Objects /\ o.h \in Handles,
         NEW x \in Of(w, 1, outs)
  PROVE  \E o \in outs : x.ret = o.ret /\ Put(x.w, w, o.rs, o.h)
<1>1. PICK o \in outs : x = [w |-> [w EXCEPT !.h = o.h, !.st.m_resultsets[1] = o.rs], ret |-> o.ret]
  BY DEF Of
<1>2. o.rs \in Objects /\ o.h \in Handles
  OBVIOUS
<1> DEFINE v == [w EXCEPT !.h = o.h, !.st.m_resultsets[1] = o.rs]
<1>3. Put(v, w, o.rs, o.h)
  BY <1>2, Putting
<1> HIDE DEF v
<1>4. x = [w |-> v, ret |-> o.ret]
  BY <1>1 DEF v
<1> QED BY <1>3, <1>4

LEMMA OfRecord ==
  ASSUME NEW w, NEW i, NEW outs, NEW x \in Of(w, i, outs)
  PROVE  x = [w |-> x.w, ret |-> x.ret]
<1>1. PICK o \in outs : x = [w |-> [w EXCEPT !.h = o.h, !.st.m_resultsets[i] = o.rs], ret |-> o.ret]
  BY DEF Of
<1> DEFINE v == [w EXCEPT !.h = o.h, !.st.m_resultsets[i] = o.rs]
<1> HIDE DEF v
<1>2. x = [w |-> v, ret |-> o.ret]
  BY <1>1 DEF v
<1> QED BY <1>2

\* What was put may be what a method leaves.
LEMMA PutFine ==
  ASSUME NEW w, NEW d, w.st.m_params # "broken", w.st.alive, Settled(w.conn),
         NEW q, NEW k, ResultFine(q, k, d), HandleFine(k), k.live,
         NEW v, Put(v, w, q, k)
  PROVE  WorldFine(v, d)
<1>1. v \in Worlds /\ v.st \in Statements
  BY DEF Put, Worlds
<1>2. v.st.m_resultsets # <<>> /\ Len(v.st.m_resultsets) = 1 /\ v.st.m_resultsets[1] = q
  <2>1. v.st.m_resultsets = <<q>>
    BY DEF Put
  <2> QED BY <2>1
<1>3. v.h = k /\ v.st.m_params # "broken" /\ v.st.alive /\ Settled(v.conn)
  BY DEF Put
<1> QED BY <1>1, <1>2, <1>3 DEF WorldFine, StmtFine

\* A method of the only resultset leaves what it should.
LEMMA OfGood ==
  ASSUME NEW w, NEW d, WorldFine(w, d), w.st.m_resultsets # <<>>, NEW outs,
         \A o \in outs : Good(o, w.h, d),
         NEW x \in Of(w, 1, outs)
  PROVE  Fair(x, d)
<1>1. w \in Worlds /\ Len(w.st.m_resultsets) = 1 /\ w.h.live /\ w.st.alive /\ Settled(w.conn)
      /\ w.st.m_params # "broken"
  BY DEF WorldFine, StmtFine
<1>2. \A o \in outs : o.rs \in Objects /\ o.h \in Handles
  BY DEF Good, ResultFine, HandleFine
<1>3. PICK o \in outs : x.ret = o.ret /\ Put(x.w, w, o.rs, o.h)
  BY <1>1, <1>2, OfIs
<1>4. Good(o, w.h, d)
  OBVIOUS
<1>5. WorldFine(x.w, d)
  BY <1>1, <1>3, <1>4, PutFine DEF Good
<1> QED BY <1>3, <1>4, <1>5 DEF Fair, Good

LEMMA AddedIs ==
  ASSUME NEW w \in Worlds, w.st.m_resultsets = <<>>
  PROVE  Put(Added(w), w, ResultInit, w.h)
<1> DEFINE s == [w.st EXCEPT !.m_resultsets = <<ResultInit>>]
           v == [w EXCEPT !.st = s]
<1>1. w.st \in Statements
  BY DEF Worlds
<1>2. <<ResultInit>> \in Seq(Objects)
  <2> HIDE DEF ResultInit
  <2> QED BY InitObject
<1>3. Append(w.st.m_resultsets, ResultInit) = <<ResultInit>>
  <2> HIDE DEF ResultInit
  <2>1. Append(<<>>, ResultInit) = <<ResultInit>>
    OBVIOUS
  <2> QED BY <2>1
<1>4. Added(w) = v
  <2>1. Added(w) = [w EXCEPT !.st = [w.st EXCEPT !.m_resultsets = Append(w.st.m_resultsets, ResultInit)]]
    BY <1>1 DEF Added, Worlds, Statements
  <2> QED BY <1>3, <2>1
<1>5. /\ s \in Statements /\ s.m_resultsets = <<ResultInit>> /\ s.alive = w.st.alive
      /\ s.m_params = w.st.m_params
  BY <1>1, <1>2, WithResult
<1> HIDE DEF s
<1>6. v \in Worlds /\ v.st = s /\ v.conn = w.conn /\ v.h = w.h
  BY <1>5, WithStmt
<1> HIDE DEF v
<1> QED BY <1>4, <1>5, <1>6 DEF Put

\* The state of the statement says nothing of its resultsets.
LEMMA StateKept ==
  ASSUME NEW w, NEW d, WorldFine(w, d), NEW c \in CursorFlags \ {"BAD"}
  PROVE  LET v == SetStmtState(w, c)
         IN  WorldFine(v, d) /\ v.st.m_params = w.st.m_params
               /\ v.st.m_resultsets = w.st.m_resultsets /\ v.h = w.h
<1> DEFINE m == SetCursorState(w.st.m_cursorstate, c)
           s == [w.st EXCEPT !.m_cursorstate = m]
           v == [w EXCEPT !.st = s]
<1>1. w \in Worlds /\ w.st \in Statements
  BY DEF WorldFine, Worlds
<1>2. m \in SUBSET CursorFlags
  BY Masks DEF SetCursorState, CursorFlags
<1>3. SetStmtState(w, c) = v
  BY <1>1 DEF SetStmtState, Worlds, Statements
<1> HIDE DEF m
<1>4. /\ s \in Statements /\ s.m_resultsets = w.st.m_resultsets /\ s.alive = w.st.alive
      /\ s.m_params = w.st.m_params
  BY <1>1, <1>2 DEF Statements
<1> HIDE DEF s
<1>5. v \in Worlds /\ v.st = s /\ v.conn = w.conn /\ v.h = w.h
  BY <1>1, <1>4, WithStmt
<1> HIDE DEF v
<1>6. WorldFine(v, d)
  BY <1>4, <1>5 DEF WorldFine, StmtFine
<1> QED BY <1>3, <1>4, <1>5, <1>6

LEMMA StmtPrepareFair ==
  ASSUME NEW w, NEW d, WorldFine(w, d), w.st.m_resultsets = <<>>, NEW sql \in Queries,
         NEW x \in StmtPrepare(w, sql)
  PROVE  /\ Fair(x, d) /\ x.w.st.m_params = w.st.m_params
         /\ Len(x.w.st.m_resultsets) = 1 /\ x.w.st.m_params \in {"none", "fresh"}
<1> DEFINE u == Added(w)
           outs == RsPrepare(ResultInit, w.h, dbc.m_isConnected, sql)
<1>1. /\ w \in Worlds /\ w.st.m_params \in {"none", "fresh"} /\ w.st.alive /\ w.h.live
      /\ Settled(w.conn) /\ HandleFine(w.h) /\ w.h.bound = {}
  BY DEF WorldFine, StmtFine, Worlds, Statements, Params
<1>2. Put(u, w, ResultInit, w.h)
  BY <1>1, AddedIs
<1>3. Len(w.st.m_resultsets) + 1 = 1
  <2>1. Len(<<>>) + 1 = 1
    OBVIOUS
  <2> QED BY <2>1
<1> HIDE DEF u
<1>4. PICK o \in Of(u, 1, outs) :
        IF o.ret = Ok THEN x \in Gives(SetStmtState(o.w, "PREPARED"), Ok) ELSE x = o
  BY <1>3 DEF StmtPrepare, Then, u
<1> HIDE DEF outs
<1>5. ResultFine(ResultInit, w.h, d)
  BY <1>1, InitObject, NotOpenFine
<1>6. WorldFine(u, d)
  BY <1>1, <1>2, <1>5, PutFine
<1>7. u.h = w.h /\ u.st.m_resultsets # <<>> /\ u.st.m_params = w.st.m_params
      /\ Len(u.st.m_resultsets) = 1 /\ u \in Worlds
  <2> HIDE DEF ResultInit
  <2>1. u.st.m_resultsets = <<ResultInit>>
    BY <1>2 DEF Put
  <2> QED BY <1>2, <2>1 DEF Put
<1>8. \A y \in outs : Good(y, u.h, d)
  BY <1>1, <1>7, PrepareGood DEF outs
<1>9. Fair(o, d)
  BY <1>4, <1>6, <1>7, <1>8, OfGood
<1>10. o.w.st.m_params = w.st.m_params /\ Len(o.w.st.m_resultsets) = 1
  <2>1. \A y \in outs : y.rs \in Objects /\ y.h \in Handles
    BY <1>8 DEF Good, ResultFine, HandleFine
  <2>2. PICK y \in outs : Put(o.w, u, y.rs, y.h)
    BY <1>4, <1>7, <2>1, OfIs
  <2>3. o.w.st.m_resultsets = <<y.rs>>
    BY <2>2 DEF Put
  <2> QED BY <1>7, <2>2, <2>3 DEF Put
<1>11. CASE o.ret = Ok
  <2> DEFINE v == SetStmtState(o.w, "PREPARED")
  <2>1. x.w = v /\ x.ret = Ok
    BY <1>4, <1>11, GivesFacts
  <2>2. "PREPARED" \in CursorFlags \ {"BAD"}
    BY DEF CursorFlags
  <2>3. WorldFine(o.w, d)
    BY <1>9 DEF Fair
  <2>4. WorldFine(v, d) /\ v.st.m_params = o.w.st.m_params
        /\ v.st.m_resultsets = o.w.st.m_resultsets
    BY <2>2, <2>3, StateKept
  <2> HIDE DEF v
  <2> QED BY <1>1, <1>10, <2>1, <2>4, Words DEF Fair
<1>12. CASE o.ret # Ok
  BY <1>1, <1>4, <1>9, <1>10, <1>12
<1> QED BY <1>11, <1>12

-----------------------------------------------------------------------------
(* The execution of a resultset                                            *)

\* The only resultset is not open, so that nothing is bound.
Idle(w, d) ==
  /\ WorldFine(w, d) /\ w.st.m_resultsets # <<>>
  /\ ~IsOpen(w.st.m_resultsets[1])

LEMMA IdleFacts ==
  ASSUME NEW w, NEW d, Idle(w, d)
  PROVE  LET r == w.st.m_resultsets[1]
         IN  /\ w \in Worlds /\ Len(w.st.m_resultsets) = 1 /\ w.st.m_resultsets = <<r>>
             /\ r \in Objects /\ ~IsBad(r) /\ ~IsOpen(r) /\ ~Positioned(r) /\ ~IsEof(r)
             /\ HandleFine(w.h) /\ w.h.bound = {} /\ w.h.live
             /\ Settled(w.conn) /\ w.st.alive /\ w.st.m_params # "broken"
<1>1. w \in Worlds /\ Len(w.st.m_resultsets) = 1 /\ w.st.m_resultsets \in Seq(Objects)
      /\ HandleFine(w.h) /\ w.h.live /\ Settled(w.conn) /\ w.st.alive
      /\ w.st.m_params # "broken"
      /\ ResultFine(w.st.m_resultsets[1], w.h, d) /\ ~IsOpen(w.st.m_resultsets[1])
  BY DEF Idle, WorldFine, StmtFine, Statements
<1>2. w.st.m_resultsets = <<w.st.m_resultsets[1]>>
  BY <1>1
<1> QED BY <1>1, <1>2 DEF ResultFine, Prefixed

\* A world with a resultset that is not open is idle.
LEMMA PutIdle ==
  ASSUME NEW w, NEW d, w.st.m_params # "broken", w.st.alive, Settled(w.conn),
         NEW q \in Objects, ~IsBad(q), ~IsOpen(q), ~Positioned(q), ~IsEof(q),
         NEW k, HandleFine(k), k.live, k.bound = {},
         NEW v, Put(v, w, q, k)
  PROVE  Idle(v, d)
<1>1. WorldFine(v, d)
  BY NotOpenFine, PutFine
<1>2. v.st.m_resultsets # <<>> /\ v.st.m_resultsets[1] = q
  <2>1. v.st.m_resultsets = <<q>>
    BY DEF Put
  <2> QED BY <2>1
<1> QED BY <1>1, <1>2 DEF Idle

LEMMA RewoundIdle ==
  ASSUME NEW w, NEW d, WorldFine(w, d), w.st.m_resultsets # <<>>, NEW x \in Rewound(w, 1)
  PROVE  x.ret = Ok /\ Idle(x.w, d) /\ x.w.st.m_params = w.st.m_params
<1> DEFINE r == w.st.m_resultsets[1]
<1>1. /\ w \in Worlds /\ Len(w.st.m_resultsets) = 1 /\ w.h.live /\ w.st.alive /\ Settled(w.conn)
      /\ w.st.m_params # "broken" /\ ResultFine(r, w.h, d) /\ HandleFine(w.h)
  BY DEF WorldFine, StmtFine
<1>2. r \in Objects
  BY <1>1 DEF ResultFine
<1>3. CASE ~IsOpen(r)
  <2>1. x \in Gives(w, Ok)
    BY <1>3 DEF Rewound
  <2> QED BY <1>3, <2>1, GivesFacts DEF Idle
<1>4. CASE ~~IsOpen(r)
  <2> DEFINE outs == RsReset(r, w.h)
  <2>1. PICK o \in Of(w, 1, outs) :
          IF o.ret = Ok THEN x \in Gives([o.w EXCEPT !.st.m_resultsets[1] = SetState(@, "PREPARED")], Ok)
          ELSE x = o
    BY <1>4 DEF Rewound, Then
  <2>2. \A y \in outs : y.ret = Ok /\ ResetTo(r, w.h, y)
    BY <1>1, <1>2, ResetIs
  <2> HIDE DEF outs, r
  <2>3. \A y \in outs : y.rs \in Objects /\ y.h \in Handles
    BY <2>2 DEF ResetTo
  <2>4. PICK y \in outs : o.ret = y.ret /\ Put(o.w, w, y.rs, y.h)
    BY <1>1, <2>1, <2>3, OfIs
  <2>5. o.ret = Ok /\ ResetTo(r, w.h, y) /\ y.rs \in Objects /\ y.h \in Handles
    BY <2>2, <2>3, <2>4
  <2> DEFINE q == SetState(y.rs, "PREPARED")
             v == [o.w EXCEPT !.st.m_resultsets[1] = SetState(@, "PREPARED")]
  <2>6. x.w = v /\ x.ret = Ok
    BY <2>1, <2>5, GivesFacts
  <2>7. /\ o.w \in Worlds /\ Len(o.w.st.m_resultsets) = 1 /\ o.w.st.m_resultsets[1] = y.rs
        /\ o.w.h = y.h /\ o.w.st.m_params = w.st.m_params /\ o.w.st.alive /\ Settled(o.w.conn)
    <3>1. o.w.st.m_resultsets = <<y.rs>>
      BY <2>4 DEF Put
    <3> QED BY <1>1, <2>4, <3>1 DEF Put
  <2>8. q \in Objects /\ ~IsBad(q) /\ ~IsOpen(q) /\ ~Positioned(q) /\ ~IsEof(q)
    BY <2>5, States DEF Alike
  <2>9. v = [o.w EXCEPT !.h = y.h, !.st.m_resultsets[1] = q]
    <3>1. /\ v = [o.w EXCEPT !.st.m_resultsets[1] = SetState(o.w.st.m_resultsets[1], "PREPARED")]
          /\ o.w.h = y.h
      BY <2>7 DEF Worlds, Statements
    <3>2. v = [o.w EXCEPT !.st.m_resultsets[1] = q]
      BY <2>7, <3>1
    <3> HIDE DEF q, v
    <3> QED BY <2>7, <3>2 DEF Worlds
  <2> HIDE DEF q, v
  <2>10. Put(v, o.w, q, y.h)
    BY <2>5, <2>7, <2>8, <2>9, Putting
  <2>11. HandleFine(y.h) /\ y.h.live /\ y.h.bound = {}
    BY <1>1, <2>5 DEF ResetTo, HandleFine
  <2>12. Idle(v, d)
    BY <1>1, <2>7, <2>8, <2>10, <2>11, PutIdle
  <2> QED BY <2>6, <2>7, <2>10, <2>12 DEF Put
<1> QED BY <1>3, <1>4

\* Another LOB parameter changes nothing else.
LEMMA WithParams ==
  ASSUME NEW w, NEW d, WorldFine(w, d), NEW p \in Params \ {"broken"},
         w.st.m_resultsets = <<>> => p # "spent"
  PROVE  LET v == [w EXCEPT !.st.m_params = p]
         IN  /\ WorldFine(v, d) /\ v.st.m_params = p
             /\ v.st.m_resultsets = w.st.m_resultsets /\ v.h = w.h /\ v.conn = w.conn
<1> DEFINE s == [w.st EXCEPT !.m_params = p]
           u == [w EXCEPT !.st = s]
<1>1. w \in Worlds /\ w.st \in Statements
  BY DEF WorldFine, Worlds
<1>2. [w EXCEPT !.st.m_params = p] = u
  BY <1>1 DEF Worlds, Statements
<1>3. /\ s \in Statements /\ s.m_resultsets = w.st.m_resultsets /\ s.alive = w.st.alive
      /\ s.m_params = p
  BY <1>1 DEF Statements
<1> HIDE DEF s
<1>4. u \in Worlds /\ u.st = s /\ u.conn = w.conn /\ u.h = w.h
  BY <1>1, <1>3, WithStmt
<1> HIDE DEF u
<1>5. WorldFine(u, d)
  BY <1>3, <1>4 DEF WorldFine, StmtFine
<1> QED BY <1>2, <1>3, <1>4, <1>5

LEMMA BindParamsIdle ==
  ASSUME NEW w, NEW d, Idle(w, d), w.st.m_params \in {"none", "fresh"}, NEW x \in BindParams(w)
  PROVE  /\ x.ret \in {Ok, Throw} /\ Idle(x.w, d)
         /\ x.w.st.m_params # "none" => w.st.m_params = "fresh"
<1>1. \/ x \in Gives(w, Throw) \/ x \in Gives(w, Ok)
      \/ x \in Gives([w EXCEPT !.st.m_params = "spent"], Ok) /\ w.st.m_params = "fresh"
  <2>1. CASE w.st.m_params = "none" \/ ~dbc.needLength
    BY <2>1 DEF BindParams
  <2>2. CASE ~(w.st.m_params = "none") /\ ~~dbc.needLength
    <3>1. w.st.m_params = "fresh"
      BY <2>2
    <3> QED BY <2>2, <3>1 DEF BindParams
  <2> QED BY <2>1, <2>2
<1>2. CASE x \in Gives(w, Throw) \/ x \in Gives(w, Ok)
  BY <1>2, GivesFacts
<1>3. CASE x \in Gives([w EXCEPT !.st.m_params = "spent"], Ok) /\ w.st.m_params = "fresh"
  <2> DEFINE v == [w EXCEPT !.st.m_params = "spent"]
  <2>1. "spent" \in Params \ {"broken"} /\ w.st.m_resultsets # <<>> /\ WorldFine(w, d)
    BY DEF Params, Idle
  <2>2. WorldFine(v, d) /\ v.st.m_resultsets = w.st.m_resultsets
    BY <2>1, WithParams
  <2>3. x.w = v /\ x.ret = Ok
    BY <1>3, GivesFacts
  <2> HIDE DEF v
  <2> QED BY <1>3, <2>2, <2>3 DEF Idle
<1> QED BY <1>1, <1>2, <1>3

\* What the driver executed is in the world.
LEMMA ExecutedIs ==
  ASSUME NEW w \in Worlds, NEW e, e.conn \in Conns, e.h \in Handles
  PROVE  LET v == Executed(w, e)
         IN  v \in Worlds /\ v.conn = e.conn /\ v.h = e.h /\ v.st = w.st
<1> DEFINE u == [w EXCEPT !.conn = e.conn]
           v == [u EXCEPT !.h = e.h]
<1>1. u \in Worlds /\ u.conn = e.conn /\ u.st = w.st
  BY DEF Worlds
<1>2. v \in Worlds /\ v.conn = e.conn /\ v.st = w.st /\ v.h = e.h
  <2> HIDE DEF u
  <2> QED BY <1>1 DEF Worlds
<1>3. Executed(w, e) = v
  BY DEF Executed, Worlds
<1> HIDE DEF v
<1> QED BY <1>2, <1>3

\* What was executed leaves an idle statement idle.
LEMMA ExecutedIdle ==
  ASSUME NEW w, NEW d, Idle(w, d), NEW e, Settled(e.conn), HandleFine(e.h), e.h.live,
         e.h.bound = {}
  PROVE  Idle(Executed(w, e), d)
<1> DEFINE v == Executed(w, e)
           r == w.st.m_resultsets[1]
<1>1. /\ w \in Worlds /\ Len(w.st.m_resultsets) = 1 /\ w.st.m_resultsets = <<r>>
      /\ r \in Objects /\ ~IsBad(r) /\ ~IsOpen(r) /\ ~Positioned(r) /\ ~IsEof(r)
      /\ w.st.alive /\ w.st.m_params # "broken"
  BY IdleFacts
<1>2. e.conn \in Conns /\ e.h \in Handles
  BY DEF Settled, HandleFine
<1>3. v \in Worlds /\ v.conn = e.conn /\ v.h = e.h /\ v.st = w.st
  BY <1>1, <1>2, ExecutedIs
<1> HIDE DEF v, r
<1>4. ResultFine(r, v.h, d)
  BY <1>1, <1>3, NotOpenFine
<1>5. WorldFine(v, d)
  BY <1>1, <1>3, <1>4 DEF WorldFine, StmtFine, r, Worlds, HandleFine
<1> QED BY <1>1, <1>3, <1>5 DEF Idle, v, r

\* A member of the only resultset of a world is changed.
LEMMA TupleUpdated ==
  ASSUME NEW w \in Worlds, Len(w.st.m_resultsets) = 1, NEW r, r = w.st.m_resultsets[1],
         NEW n \in Nat
  PROVE  Put([w EXCEPT !.st.m_resultsets[1].m_current_tuple = n], w,
             [r EXCEPT !.m_current_tuple = n], w.h)
<1> DEFINE a == [r EXCEPT !.m_current_tuple = n]
           u == [w EXCEPT !.st.m_resultsets[1].m_current_tuple = n]
<1>1. w.h \in Handles /\ w.st \in Statements /\ r \in Objects
  <2>1. w.st.m_resultsets \in Seq(Objects)
    BY DEF Worlds, Statements
  <2> QED BY <2>1 DEF Worlds
<1>2. a \in Objects
  BY <1>1 DEF Objects
<1>3. u = [w EXCEPT !.h = w.h, !.st.m_resultsets[1] = a]
  BY DEF Worlds
<1> HIDE DEF a, u
<1> QED BY <1>1, <1>2, <1>3, Putting DEF a, u

LEMMA StateUpdated ==
  ASSUME NEW w \in Worlds, Len(w.st.m_resultsets) = 1, NEW r, r = w.st.m_resultsets[1],
         NEW m \in SUBSET CursorFlags
  PROVE  Put([w EXCEPT !.st.m_resultsets[1].m_cursorstate = m], w,
             [r EXCEPT !.m_cursorstate = m], w.h)
<1> DEFINE a == [r EXCEPT !.m_cursorstate = m]
           u == [w EXCEPT !.st.m_resultsets[1].m_cursorstate = m]
<1>1. w.h \in Handles /\ w.st \in Statements /\ r \in Objects
  <2>1. w.st.m_resultsets \in Seq(Objects)
    BY DEF Worlds, Statements
  <2> QED BY <2>1 DEF Worlds
<1>2. a \in Objects
  BY <1>1 DEF Objects
<1>3. u = [w EXCEPT !.h = w.h, !.st.m_resultsets[1] = a]
  BY DEF Worlds
<1> HIDE DEF a, u
<1> QED BY <1>1, <1>2, <1>3, Putting DEF a, u

\* An idle statement is opened: nothing is read yet.
LEMMA OpenedFair ==
  ASSUME NEW w, Idle(w, dbc), Able(dbc),
         w.h.cursor \in {"none", "open"}, w.h.cursor = "open" => w.h.at = NoRow,
         NEW code \in {"OK", "NO_DATA"}, code = "NO_DATA" => w.h.cursor = "none",
         NEW x \in Opened(w, 1, code)
  PROVE  Fair(x, dbc)
<1> DEFINE r == w.st.m_resultsets[1]
           q == SetState(r, "OPEN")
           outs == RefreshMetadata(q, w.h, dbc)
<1>1. /\ w \in Worlds /\ Len(w.st.m_resultsets) = 1 /\ r \in Objects
      /\ HandleFine(w.h) /\ w.h \in Handles /\ w.h.bound = {} /\ w.h.live
      /\ Settled(w.conn) /\ w.st.alive /\ w.st.m_params # "broken"
  BY IdleFacts DEF HandleFine
<1>2. IsOpen(q) /\ ~Positioned(q) /\ ~IsEof(q) /\ ~IsBad(q) /\ q \in Objects
  BY <1>1, States DEF Alike
<1>3. PICK o \in Of(w, 1, outs) :
        IF o.ret = Ok
          THEN x \in Gives([o.w EXCEPT !.st.m_resultsets[1].m_current_tuple = 0,
                                       !.st.m_resultsets[1].m_cursorstate =
                                         IF code = "NO_DATA" THEN SetCursorState(@, "EOF") ELSE @], Ok)
        ELSE x = o
  BY DEF Opened, Then
<1> HIDE DEF r, q
<1>4. ASSUME NEW y \in outs
      PROVE  Described(y, q, w.h, dbc, Width) /\ Attached(y.rs, y.h, dbc)
  BY <1>1, <1>2, RefreshMetadataSound
<1> HIDE DEF outs
<1>5. \A y \in outs : y.rs \in Objects /\ y.h \in Handles
  BY <1>4 DEF Described, Binding
<1>6. PICK y \in outs : o.ret = y.ret /\ Put(o.w, w, y.rs, y.h)
  BY <1>1, <1>3, <1>5, OfIs
<1>7. /\ y.rs \in Objects /\ IsOpen(y.rs) /\ ~Positioned(y.rs) /\ ~IsEof(y.rs) /\ ~IsBad(y.rs)
      /\ y.h \in Handles /\ y.h.live /\ y.h.cursor = w.h.cursor /\ y.h.at = w.h.at
      /\ Attached(y.rs, y.h, dbc) /\ y.ret \in {Ok, Throw}
  BY <1>1, <1>2, <1>4 DEF Described, Binding, IsOpen, Positioned, IsEof, IsBad
<1>8. HandleFine(y.h)
  BY <1>7 DEF HandleFine
<1>9. CASE o.ret = Throw
  <2>1. ResultFine(y.rs, y.h, dbc)
    BY <1>7 DEF ResultFine, Prefixed, Live, Placed
  <2>2. WorldFine(o.w, dbc)
    BY <1>1, <1>6, <1>7, <1>8, <2>1, PutFine
  <2> QED BY <1>3, <1>9, <2>2, Words DEF Fair
<1>10. CASE o.ret = Ok
  <2> DEFINE m == IF code = "NO_DATA" THEN SetCursorState(y.rs.m_cursorstate, "EOF")
                  ELSE y.rs.m_cursorstate
             a == [y.rs EXCEPT !.m_current_tuple = 0]
             p == [a EXCEPT !.m_cursorstate = m]
             v == [o.w EXCEPT !.st.m_resultsets[1].m_current_tuple = 0,
                              !.st.m_resultsets[1].m_cursorstate =
                                IF code = "NO_DATA" THEN SetCursorState(@, "EOF") ELSE @]
  <2>1. x.w = v /\ x.ret = Ok
    BY <1>3, <1>10, GivesFacts
  <2>2. /\ o.w \in Worlds /\ Len(o.w.st.m_resultsets) = 1 /\ o.w.st.m_resultsets[1] = y.rs
        /\ o.w.st.m_resultsets = <<y.rs>>
        /\ o.w.h = y.h /\ o.w.st.m_params # "broken" /\ o.w.st.alive /\ Settled(o.w.conn)
    <3>1. o.w.st.m_resultsets = <<y.rs>>
      BY <1>6 DEF Put
    <3> QED BY <1>1, <1>6, <3>1 DEF Put
  <2>3. /\ a \in Objects /\ a.m_current_tuple = 0 /\ a.m_cursorstate = y.rs.m_cursorstate
        /\ a.m_column_accessors = y.rs.m_column_accessors
        /\ a.m_is_bound = y.rs.m_is_bound /\ a.buf = y.rs.buf /\ a.lob = y.rs.lob
    BY <1>7 DEF Objects
  <2>4. m \in SUBSET CursorFlags
    <3>1. y.rs.m_cursorstate \in SUBSET CursorFlags
      BY <1>7 DEF Objects
    <3> QED BY <3>1, Masks DEF SetCursorState, CursorFlags
  <2>5. "OPEN" \in m /\ "BAD" \notin m
        /\ (code = "NO_DATA" => "EOF" \in m /\ "POSITIONED" \in m)
        /\ (code = "OK" => "EOF" \notin m /\ "POSITIONED" \notin m)
    <3>1. CASE code = "NO_DATA"
      <4>1. m = {"PREPARED", "OPEN", "POSITIONED", "EOF"}
        BY <3>1, Masks DEF SetCursorState
      <4> QED BY <3>1, <4>1
    <3>2. CASE code = "OK"
      <4>1. m = y.rs.m_cursorstate
        BY <3>2
      <4> HIDE DEF m
      <4> QED BY <1>7, <3>2, <4>1 DEF IsOpen, IsBad, IsEof, Positioned
    <3> QED BY <3>1, <3>2
  <2> DEFINE u == [o.w EXCEPT !.st.m_resultsets[1].m_current_tuple = 0]
             z == [u EXCEPT !.st.m_resultsets[1].m_cursorstate =
                              IF code = "NO_DATA" THEN SetCursorState(@, "EOF") ELSE @]
  <2>6. v = z
    OBVIOUS
  <2>7. /\ p \in Objects /\ p.m_current_tuple = 0 /\ p.m_cursorstate = m
        /\ p.m_column_accessors = y.rs.m_column_accessors
        /\ p.m_is_bound = y.rs.m_is_bound /\ p.buf = y.rs.buf /\ p.lob = y.rs.lob
    <3> HIDE DEF a, m
    <3> QED BY <2>3, <2>4 DEF Objects
  <2>8. Put(z, o.w, p, y.h)
    <3>1. Put(u, o.w, a, y.h)
      BY <2>2, TupleUpdated
    <3> HIDE DEF u, z
    <3>2. u \in Worlds /\ Len(u.st.m_resultsets) = 1 /\ u.st.m_resultsets[1] = a /\ u.h = y.h
      <4>1. u.st.m_resultsets = <<a>>
        BY <3>1 DEF Put
      <4> HIDE DEF a
      <4> QED BY <3>1, <4>1 DEF Put
    <3>3. m = IF code = "NO_DATA" THEN SetCursorState(a.m_cursorstate, "EOF") ELSE a.m_cursorstate
      BY <2>3
    <3>4. z = [u EXCEPT !.st.m_resultsets[1].m_cursorstate = m]
      <4> HIDE DEF a, m
      <4> QED BY <3>2, <3>3 DEF z
    <3>5. Put(z, u, p, y.h)
      <4> HIDE DEF a, m
      <4> QED BY <2>4, <3>2, <3>4, StateUpdated
    <3> QED BY <3>1, <3>5 DEF Put
  <2> HIDE DEF a, m, v, z, p, u
  <2>9. Attached(p, y.h, dbc)
    BY <1>7, <2>7 DEF Attached, Unbound
  <2>10. IsOpen(p) /\ ~IsBad(p) /\ (code = "NO_DATA" => IsEof(p) /\ Positioned(p))
         /\ (code = "OK" => ~IsEof(p) /\ ~Positioned(p))
    BY <2>5, <2>7 DEF IsOpen, IsBad, IsEof, Positioned
  <2>11. Prefixed(p) /\ ~Live(p)
    BY <2>10 DEF Prefixed, Live
  <2>12. y.h.cursor = "open" => Placed(p, y.h)
    BY <1>7, <2>10 DEF Placed
  <2>13. ResultFine(p, y.h, dbc)
    BY <2>7, <2>9, <2>10, <2>11, <2>12 DEF ResultFine
  <2>14. WorldFine(v, dbc)
    BY <1>7, <1>8, <2>2, <2>6, <2>8, <2>13, PutFine
  <2> QED BY <2>1, <2>14, Words DEF Fair
<1> QED BY <1>6, <1>7, <1>9, <1>10

\* The data of the LOB are put.
LEMMA PutDataFair ==
  ASSUME NEW w, NEW g, HandleFine(g), g.live, g.bound = {}, NEW k, Settled(k),
         NEW u, Idle(u, dbc), u.st.m_params \in {"fresh", "spent"},
         w = Executed(u, Execution(k, [g EXCEPT !.cursor = "waits"], "NEED_DATA")),
         NEW x \in PutData(w, TRUE)
  PROVE  Fair(x, dbc)
<1> DEFINE e0 == Execution(k, [g EXCEPT !.cursor = "waits"], "NEED_DATA")
           spent == [w EXCEPT !.st.m_params = "spent"]
<1>1. /\ e0.conn = k /\ e0.h \in Handles /\ e0.h.live = g.live /\ e0.h.bound = {}
  BY DEF HandleFine, Handles, Execution
<1>2. u \in Worlds /\ k \in Conns
  BY DEF Settled, Idle, WorldFine
<1> HIDE DEF e0
<1>3. w \in Worlds /\ w.conn = k /\ w.h = e0.h /\ w.st = u.st
  BY <1>1, <1>2, ExecutedIs DEF e0
<1>4. PICK e \in PutsData(k, w.h, TRUE) :
        x = [w |-> Executed(spent, e), ret |-> IF e.code = "OK" THEN Ok ELSE Throw]
  <2>1. w.st.m_params # "broken"
    BY <1>3
  <2> QED BY <1>3, <2>1 DEF PutData
<1>5. Settled(e.conn) /\ HandleFine(e.h) /\ e.h.live /\ e.h.bound = {}
  <2>1. CASE e = Execution(k, [w.h EXCEPT !.cursor = "none"], "ERROR")
    BY <1>1, <1>3, <2>1 DEF Execution, HandleFine, Handles
  <2>2. CASE e \in Completions(k, w.h)
    <3>1. Ran(e, k, w.h)
      BY <1>1, <1>3, <2>2, Completing
    <3> QED BY <1>1, <1>3, <3>1 DEF Ran, HandleFine
  <2> QED BY <1>4, <2>1, <2>2 DEF PutsData
<1> DEFINE s == [u EXCEPT !.st.m_params = "spent"]
<1>6. Idle(s, dbc)
  <2>1. "spent" \in Params \ {"broken"} /\ u.st.m_resultsets # <<>> /\ WorldFine(u, dbc)
    BY DEF Params, Idle
  <2>2. WorldFine(s, dbc) /\ s.st.m_resultsets = u.st.m_resultsets
    BY <2>1, WithParams
  <2> HIDE DEF s
  <2> QED BY <2>2 DEF Idle
<1>7. Executed(spent, e) = Executed(s, e)
  <2>1. u.st \in Statements
    BY <1>2 DEF Worlds
  <2> DEFINE t == [u.st EXCEPT !.m_params = "spent"]
  <2>2. s = [u EXCEPT !.st = t] /\ spent = [w EXCEPT !.st = t]
    BY <1>2, <1>3, <2>1 DEF Worlds, Statements
  <2> HIDE DEF t, s, spent
  <2>3. t \in Statements
    BY <2>1 DEF t, Statements, Params
  <2>4. /\ s \in Worlds /\ s.st = t
        /\ spent \in Worlds /\ spent.st = t
    BY <1>2, <1>3, <2>2, <2>3, WithStmt
  <2> QED BY <2>4 DEF Executed, Worlds
<1>8. Idle(Executed(s, e), dbc)
  <2> HIDE DEF s
  <2> QED BY <1>5, <1>6, ExecutedIdle
<1>9. x.w = Executed(s, e) /\ x.ret \in {Ok, Throw}
  <2> HIDE DEF s, spent
  <2> QED BY <1>4, <1>7
<1> QED BY <1>8, <1>9, Words DEF Fair, Idle

LEMMA RunFair ==
  ASSUME NEW w, Idle(w, dbc), Able(dbc), NEW had, w.st.m_params # "none" => had = TRUE,
         NEW x \in Run(w, 1, had)
  PROVE  Fair(x, dbc)
<1>1. /\ w \in Worlds /\ HandleFine(w.h) /\ w.h \in Handles /\ w.h.live /\ w.h.bound = {}
      /\ Settled(w.conn) /\ w.st.m_params \in {"none", "fresh", "spent"}
  BY IdleFacts DEF HandleFine, Worlds, Statements, Params
<1>2. PICK e \in Executes(w.conn, w.h, w.st.m_params # "none") :
        x \in CASE e.code = "ERROR"     -> Gives(Executed(w, e), Throw)
                [] e.code = "NEED_DATA" -> PutData(Executed(w, e), had)
                [] OTHER                -> Opened(Executed(w, e), 1, e.code)
  BY DEF Run
<1>3. CASE e = Execution(w.conn, w.h, "ERROR")
  <2>1. e.code = "ERROR" /\ e.conn = w.conn /\ e.h = w.h
    BY <1>3 DEF Execution
  <2>2. x \in Gives(Executed(w, e), Throw)
    BY <1>2, <2>1
  <2>3. Idle(Executed(w, e), dbc)
    BY <1>1, <2>1, ExecutedIdle
  <2> QED BY <2>2, <2>3, GivesFacts, Words DEF Fair, Idle
<1>4. CASE /\ w.st.m_params # "none"
           /\ e = Execution(w.conn, [w.h EXCEPT !.cursor = "waits"], "NEED_DATA")
  <2>1. e.code = "NEED_DATA"
    BY <1>4 DEF Execution
  <2>2. x \in PutData(Executed(w, e), TRUE)
    BY <1>2, <1>4, <2>1
  <2> QED BY <1>1, <1>4, <2>2, PutDataFair
<1>5. CASE e \in Completions(w.conn, w.h)
  <2>1. Ran(e, w.conn, w.h)
    BY <1>1, <1>5, Completing
  <2>2. x \in Opened(Executed(w, e), 1, e.code)
    BY <1>2, <2>1 DEF Ran
  <2>3. /\ Settled(e.conn) /\ HandleFine(e.h) /\ e.h.live /\ e.h.bound = {}
        /\ e.conn \in Conns /\ e.h \in Handles
    BY <1>1, <2>1 DEF Ran, HandleFine, Settled
  <2> DEFINE v == Executed(w, e)
  <2>4. Idle(v, dbc) /\ v.h = e.h
    BY <1>1, <2>3, ExecutedIdle, ExecutedIs
  <2> HIDE DEF v
  <2>5. v.h.cursor \in {"none", "open"} /\ (v.h.cursor = "open" => v.h.at = NoRow)
        /\ e.code \in {"OK", "NO_DATA"} /\ (e.code = "NO_DATA" => v.h.cursor = "none")
    BY <2>1, <2>4 DEF Ran
  <2> QED BY <2>2, <2>4, <2>5, OpenedFair DEF v
<1> QED BY <1>3, <1>4, <1>5 DEF Executes

LEMMA ResultExecuteFair ==
  ASSUME NEW w, WorldFine(w, dbc), Able(dbc), w.st.m_resultsets # <<>>,
         w.st.m_params \in {"none", "fresh"}, NEW x \in ResultExecute(w, 1)
  PROVE  Fair(x, dbc)
<1> DEFINE r == w.st.m_resultsets[1]
<1>1. CASE IsBad(r) \/ ~IsPrepared(r)
  <2>1. x \in Gives(w, Throw)
    BY <1>1 DEF ResultExecute
  <2> QED BY <2>1, GivesFacts, Words DEF Fair
<1>2. CASE ~(IsBad(r) \/ ~IsPrepared(r))
  <2>1. PICK p \in Then(Rewound(w, 1), BindParams) :
          IF p.ret = Ok THEN x \in Run(p.w, 1, w.st.m_params = "fresh") ELSE x = p
    BY <1>2 DEF ResultExecute, Then
  <2>2. PICK o \in Rewound(w, 1) : IF o.ret = Ok THEN p \in BindParams(o.w) ELSE p = o
    BY <2>1 DEF Then
  <2>3. o.ret = Ok /\ Idle(o.w, dbc) /\ o.w.st.m_params = w.st.m_params
    BY <2>2, RewoundIdle
  <2>4. /\ p.ret \in {Ok, Throw} /\ Idle(p.w, dbc)
        /\ p.w.st.m_params # "none" => w.st.m_params = "fresh"
    BY <2>2, <2>3, BindParamsIdle
  <2>5. CASE p.ret = Ok
    <3> DEFINE had == w.st.m_params = "fresh"
    <3>1. p.w.st.m_params # "none" => had = TRUE
      BY <2>4
    <3>2. x \in Run(p.w, 1, had)
      BY <2>1, <2>5
    <3> HIDE DEF had
    <3> QED BY <2>4, <3>1, <3>2, RunFair
  <2>6. CASE p.ret # Ok
    BY <2>1, <2>4, <2>6, Words DEF Fair, Idle
  <2> QED BY <2>5, <2>6
<1> QED BY <1>1, <1>2

-----------------------------------------------------------------------------
(* The methods of a statement with one resultset or none                   *)

\* Resultset i is executed, or destroyed, after the others.
NextExecuted(outcomes, i)  == Then(outcomes, LAMBDA v : ResultExecute(v, i))
NextDestroyed(outcomes, i) ==
  Then(outcomes, LAMBDA v : Of(v, i, RsDestroy(v.st.m_resultsets[i], v.h)))

ExecutesUpTo(f, w, n) ==
  f = [i \in 0 .. n |-> IF i = 0 THEN Gives(w, Ok) ELSE NextExecuted(f[i - 1], i)]
DestroysUpTo(f, w, n) ==
  f = [i \in 0 .. n |-> IF i = 0 THEN Gives(w, Ok) ELSE NextDestroyed(f[i - 1], i)]

LEMMA NextFacts ==
  ASSUME NEW w
  PROVE  /\ NextExecuted(Gives(w, Ok), 1) = ResultExecute(w, 1)
         /\ NextDestroyed(Gives(w, Ok), 1) = Of(w, 1, RsDestroy(w.st.m_resultsets[1], w.h))
<1> DEFINE b == [w |-> w, ret |-> Ok]
<1>1. b.w = w /\ b.ret = Ok /\ Gives(w, Ok) = {b}
  BY DEF Gives
<1> HIDE DEF b
<1> QED BY <1>1 DEF NextExecuted, NextDestroyed, Then

LEMMA ExecutesOne ==
  ASSUME NEW w, NEW n \in 0 .. 1, NEW f, f = CHOOSE k : ExecutesUpTo(k, w, n)
  PROVE  f[n] = IF n = 0 THEN Gives(w, Ok) ELSE ResultExecute(w, 1)
<1> DEFINE e == [i \in 0 .. n |-> IF i = 0 THEN Gives(w, Ok) ELSE ResultExecute(w, 1)]
<1>1. ExecutesUpTo(e, w, n)
  <2>1. ASSUME NEW i \in 0 .. n
        PROVE  e[i] = IF i = 0 THEN Gives(w, Ok) ELSE NextExecuted(e[i - 1], i)
    <3>1. CASE i = 0
      BY <3>1
    <3>2. CASE i # 0
      <4>1. i = 1 /\ i - 1 = 0 /\ 0 \in 0 .. n
        BY <3>2
      <4>2. e[0] = Gives(w, Ok) /\ e[i] = ResultExecute(w, 1)
        BY <3>2, <4>1
      <4> HIDE DEF e
      <4> QED BY <3>2, <4>1, <4>2, NextFacts
    <3> QED BY <3>1, <3>2
  <2>2. e = [i \in 0 .. n |-> e[i]]
    OBVIOUS
  <2> HIDE DEF e
  <2> QED BY <2>1, <2>2 DEF ExecutesUpTo
<1> HIDE DEF e
<1>2. ExecutesUpTo(f, w, n)
  BY <1>1
<1>3. f[0] = Gives(w, Ok)
  BY <1>2 DEF ExecutesUpTo
<1>4. ASSUME n = 1 PROVE f[1] = NextExecuted(f[0], 1)
  BY <1>2, <1>4 DEF ExecutesUpTo
<1> QED BY <1>3, <1>4, NextFacts

LEMMA DestroysOne ==
  ASSUME NEW w, NEW n \in 0 .. 1, NEW f, f = CHOOSE k : DestroysUpTo(k, w, n)
  PROVE  f[n] = IF n = 0 THEN Gives(w, Ok)
                ELSE Of(w, 1, RsDestroy(w.st.m_resultsets[1], w.h))
<1> DEFINE a == Of(w, 1, RsDestroy(w.st.m_resultsets[1], w.h))
           e == [i \in 0 .. n |-> IF i = 0 THEN Gives(w, Ok) ELSE a]
<1> HIDE DEF a
<1>1. DestroysUpTo(e, w, n)
  <2>1. ASSUME NEW i \in 0 .. n
        PROVE  e[i] = IF i = 0 THEN Gives(w, Ok) ELSE NextDestroyed(e[i - 1], i)
    <3>1. CASE i = 0
      BY <3>1
    <3>2. CASE i # 0
      <4>1. i = 1 /\ i - 1 = 0 /\ 0 \in 0 .. n
        BY <3>2
      <4>2. e[0] = Gives(w, Ok) /\ e[i] = a
        BY <3>2, <4>1
      <4> HIDE DEF e
      <4> QED BY <3>2, <4>1, <4>2, NextFacts DEF a
    <3> QED BY <3>1, <3>2
  <2>2. e = [i \in 0 .. n |-> e[i]]
    OBVIOUS
  <2> HIDE DEF e
  <2> QED BY <2>1, <2>2 DEF DestroysUpTo
<1> HIDE DEF e
<1>2. DestroysUpTo(f, w, n)
  BY <1>1
<1>3. f[0] = Gives(w, Ok)
  <2>1. 0 \in 0 .. n
    OBVIOUS
  <2>2. f = [i \in 0 .. n |-> IF i = 0 THEN Gives(w, Ok) ELSE NextDestroyed(f[i - 1], i)]
    BY <1>2 DEF DestroysUpTo
  <2> QED BY <2>1, <2>2
<1>4. ASSUME n = 1 PROVE f[1] = NextDestroyed(f[0], 1)
  BY <1>2, <1>4 DEF DestroysUpTo
<1> QED BY <1>3, <1>4, NextFacts DEF a

\* A statement that is fine has one resultset or none.
LEMMA HowMany ==
  ASSUME NEW w, NEW d, WorldFine(w, d)
  PROVE  LET n == Len(w.st.m_resultsets)
         IN  n \in 0 .. 1 /\ (n = 0 <=> w.st.m_resultsets = <<>>)
<1>1. Len(<<>>) = 0
  OBVIOUS
<1> QED BY <1>1 DEF WorldFine, StmtFine

LEMMA StmtExecuteFair ==
  ASSUME NEW w, WorldFine(w, dbc), Able(dbc), w.st.m_params \in {"none", "fresh"},
         NEW x \in StmtExecute(w)
  PROVE  Fair(x, dbc)
<1> DEFINE n == Len(w.st.m_resultsets)
           f == CHOOSE k : ExecutesUpTo(k, w, n)
<1>1. x \in f[n]
  BY DEF StmtExecute, ExecutesUpTo, NextExecuted
<1>2. n \in 0 .. 1 /\ (n = 0 <=> w.st.m_resultsets = <<>>)
  BY HowMany
<1>3. f[n] = IF n = 0 THEN Gives(w, Ok) ELSE ResultExecute(w, 1)
  BY <1>2, ExecutesOne
<1> HIDE DEF f, n
<1>4. CASE n = 0
  BY <1>1, <1>3, <1>4, GivesFacts, Words DEF Fair
<1>5. CASE n # 0
  BY <1>1, <1>2, <1>3, <1>5, ResultExecuteFair
<1> QED BY <1>4, <1>5

\* Nothing is left of the resultsets.
Emptied(v, w) ==
  /\ v \in Worlds /\ Settled(v.conn) /\ HandleFine(v.h) /\ v.h.live /\ v.h.bound = {}
  /\ v.conn = w.conn /\ v.st = NewStmt

LEMMA NewFacts ==
  /\ NewStmt \in Statements /\ NewStmt.alive /\ NewStmt.m_resultsets = <<>>
  /\ NewStmt.m_params = "none"
  /\ NoStmt \in Statements /\ ~NoStmt.alive /\ NoStmt.m_resultsets = <<>>
  /\ NoStmt.m_params = "none"
  /\ HandleFine(NewHandle) /\ NewHandle.live /\ NewHandle.bound = {}
  /\ HandleFine(NoHandle) /\ NoHandle.bound = {}
<1>1. /\ NewStmt \in Statements /\ NewStmt.alive /\ NewStmt.m_resultsets = <<>>
      /\ NewStmt.m_params = "none"
  <2>1. <<>> \in Seq(Objects) /\ "none" \in Params /\ CLOSED \in SUBSET CursorFlags
    BY DEF Params, CLOSED
  <2> QED BY <2>1 DEF NewStmt, Statements
<1>2. /\ NoStmt \in Statements /\ NoStmt.m_resultsets = <<>> /\ NoStmt.m_params = "none"
  BY <1>1 DEF NoStmt, Statements
<1>3. NoStmt.alive = FALSE
  BY <1>1 DEF NoStmt, Statements
<1>4. HandleFine(NewHandle) /\ NewHandle.live /\ NewHandle.bound = {}
  BY DEF HandleFine, NewHandle, Handles, NoRow
<1>5. HandleFine(NoHandle) /\ NoHandle.bound = {}
  BY <1>4 DEF NoHandle, HandleFine, Handles
<1> QED BY <1>1, <1>2, <1>3, <1>4, <1>5

LEMMA StmtCloseEmpties ==
  ASSUME NEW w, NEW d, WorldFine(w, d), NEW x \in StmtClose(w)
  PROVE  x.ret = Ok /\ Emptied(x.w, w)
<1> DEFINE n == Len(w.st.m_resultsets)
           f == CHOOSE k : DestroysUpTo(k, w, n)
<1>1. PICK o \in f[n] :
        IF o.ret = Ok
          THEN x \in Gives([o.w EXCEPT !.st.m_resultsets = <<>>, !.st.m_params = "none",
                                       !.st.m_cursorstate = CLOSED], Ok)
        ELSE x = o
  <2>1. x \in Then(f[n], LAMBDA v : Gives([v EXCEPT !.st.m_resultsets = <<>>, !.st.m_params = "none",
                                                    !.st.m_cursorstate = CLOSED], Ok))
    BY DEF StmtClose, DestroysUpTo, NextDestroyed
  <2> HIDE DEF f, n
  <2> QED BY <2>1 DEF Then
<1>2. n \in 0 .. 1 /\ (n = 0 <=> w.st.m_resultsets = <<>>)
  BY HowMany
<1>3. f[n] = IF n = 0 THEN Gives(w, Ok) ELSE Of(w, 1, RsDestroy(w.st.m_resultsets[1], w.h))
  BY <1>2, DestroysOne
<1> HIDE DEF f
<1>4. /\ w \in Worlds /\ w.h.live /\ w.st.alive /\ Settled(w.conn) /\ HandleFine(w.h)
      /\ w.st.m_resultsets = <<>> => w.h.bound = {}
      /\ w.st.m_resultsets # <<>> => /\ Len(w.st.m_resultsets) = 1
                                     /\ ResultFine(w.st.m_resultsets[1], w.h, d)
  BY DEF WorldFine, StmtFine
<1>5. /\ o.ret = Ok /\ o.w \in Worlds /\ o.w.conn = w.conn /\ HandleFine(o.w.h) /\ o.w.h.live
      /\ o.w.h.bound = {} /\ o.w.st.alive
  <2>1. CASE n = 0
    <3>1. o.w = w /\ o.ret = Ok
      BY <1>3, <2>1, GivesFacts
    <3> QED BY <1>2, <1>4, <2>1, <3>1
  <2>2. CASE n # 0
    <3> DEFINE outs == RsDestroy(w.st.m_resultsets[1], w.h)
    <3>1. w.st.m_resultsets[1] \in Objects /\ Len(w.st.m_resultsets) = 1
      BY <1>2, <1>4, <2>2 DEF ResultFine
    <3>2. \A y \in outs : y.ret = Ok /\ ResetTo(w.st.m_resultsets[1], w.h, y)
      BY <1>4, <3>1, DestroyIs
    <3>3. o \in Of(w, 1, outs)
      BY <1>3, <2>2
    <3> HIDE DEF outs
    <3>4. \A y \in outs : y.rs \in Objects /\ y.h \in Handles
      BY <3>2 DEF ResetTo
    <3>5. PICK y \in outs : o.ret = y.ret /\ Put(o.w, w, y.rs, y.h)
      BY <1>4, <3>1, <3>3, <3>4, OfIs
    <3> QED BY <1>4, <3>2, <3>5 DEF Put, ResetTo, HandleFine
  <2> QED BY <2>1, <2>2
<1> DEFINE v == [o.w EXCEPT !.st.m_resultsets = <<>>, !.st.m_params = "none",
                            !.st.m_cursorstate = CLOSED]
<1>6. x.w = v /\ x.ret = Ok
  BY <1>1, <1>5, GivesFacts
<1> DEFINE s == o.w.st
           a == [s EXCEPT !.m_resultsets = <<>>]
           b == [a EXCEPT !.m_params = "none"]
           c == [b EXCEPT !.m_cursorstate = CLOSED]
<1>7. s \in Statements /\ s.alive = TRUE
  BY <1>5 DEF Worlds, Statements
<1>8. v = [o.w EXCEPT !.st = c]
  BY <1>5, <1>7 DEF Worlds, Statements
<1>9. c = NewStmt
  <2>1. a \in Statements /\ a.alive = TRUE /\ a.m_resultsets = <<>>
    BY <1>7, NewFacts DEF Statements
  <2> HIDE DEF a
  <2>2. /\ b \in Statements /\ b.alive = TRUE /\ b.m_resultsets = <<>>
        /\ b.m_params = "none"
    BY <2>1 DEF Statements, Params
  <2> HIDE DEF b
  <2>3. /\ c \in Statements /\ c.alive = TRUE /\ c.m_resultsets = <<>>
        /\ c.m_params = "none" /\ c.m_cursorstate = CLOSED
    BY <2>2 DEF Statements, CLOSED
  <2> HIDE DEF c
  <2>4. c = [alive |-> c.alive, m_cursorstate |-> c.m_cursorstate,
             m_resultsets |-> c.m_resultsets, m_params |-> c.m_params]
    BY <2>3 DEF Statements
  <2> QED BY <2>3, <2>4 DEF NewStmt
<1> HIDE DEF c, v
<1>10. v \in Worlds /\ v.st = NewStmt /\ v.conn = o.w.conn /\ v.h = o.w.h
  BY <1>5, <1>8, <1>9, NewFacts, WithStmt
<1> QED BY <1>4, <1>5, <1>6, <1>10 DEF Emptied

LEMMA EmptiedFine ==
  ASSUME NEW v, NEW w, Emptied(v, w), NEW d
  PROVE  WorldFine(v, d)
BY NewFacts DEF Emptied, WorldFine, StmtFine

\* The destructor frees the handle: it does not wait for data.
LEMMA StmtDestroyIs ==
  ASSUME NEW w, NEW d, WorldFine(w, d), NEW x \in StmtDestroy(w)
  PROVE  x.ret = Ok /\ x.w.st = NoStmt /\ x.w.h = NoHandle /\ x.w.conn = w.conn
<1>1. PICK o \in StmtClose(w) :
        IF o.ret = Ok
          THEN x \in Gives([o.w EXCEPT !.st = NoStmt, !.h = NoHandle],
                           IF Freeable(o.w.h) THEN Ok ELSE Asserted(Ok))
        ELSE x = o
  BY DEF StmtDestroy, Then
<1>2. o.ret = Ok /\ Emptied(o.w, w)
  BY <1>1, StmtCloseEmpties
<1>3. Freeable(o.w.h)
  BY <1>2 DEF Emptied, Freeable, HandleFine
<1> DEFINE v == [o.w EXCEPT !.st = NoStmt, !.h = NoHandle]
<1>4. x.w = v /\ x.ret = Ok
  BY <1>1, <1>2, <1>3, GivesFacts
<1>5. v.st = NoStmt /\ v.h = NoHandle /\ v.conn = o.w.conn
  BY <1>2 DEF Emptied, Worlds
<1> HIDE DEF v
<1> QED BY <1>2, <1>4, <1>5 DEF Emptied

-----------------------------------------------------------------------------
(* The calls of a statement                                                *)

LEMMA WorldFacts ==
  /\ World.conn = conn /\ World.h = h /\ World.st = st
  /\ OdbcInv => World \in Worlds
  /\ OdbcInv /\ st.alive => WorldFine(World, dbc) /\ dbc.alive /\ dbc.m_isConnected
<1>1. World.conn = conn /\ World.h = h /\ World.st = st
  BY DEF World
<1>2. OdbcInv => World \in Worlds
  BY DEF OdbcInv, Settled, StmtFine, HandleFine, World, Worlds
<1> HIDE DEF World
<1> QED BY <1>1, <1>2 DEF OdbcInv, WorldFine

\* The part of the world that a statement was left in.
LEMMA LeftKeeps ==
  ASSUME OdbcInv, UNCHANGED dbc, ret' = Ok, NEW w,
         conn' = w.conn, h' = w.h, st' = w.st,
         \/ w.conn = conn /\ w.h = h /\ w.st = st
         \/ WorldFine(w, dbc) /\ dbc.alive /\ dbc.m_isConnected
         \/ w.conn = conn /\ w.h = NoHandle /\ w.st = NoStmt
  PROVE  OdbcInv'
<1>1. CASE w.conn = conn /\ w.h = h /\ w.st = st
  BY <1>1 DEF OdbcInv
<1>2. CASE WorldFine(w, dbc) /\ dbc.alive /\ dbc.m_isConnected
  BY <1>2 DEF OdbcInv, WorldFine
<1>3. CASE w.conn = conn /\ w.h = NoHandle /\ w.st = NoStmt
  <2>1. StmtFine(NoStmt, NoHandle, dbc)
    BY NewFacts DEF StmtFine
  <2> QED BY <1>3, <2>1, NewFacts DEF OdbcInv
<1> QED BY <1>1, <1>2, <1>3

LEMMA CallKeeps ==
  ASSUME OdbcInv, NEW outcomes, StmtCall(outcomes),
         \A o \in outcomes :
           \/ Fair(o, dbc)
           \/ o.ret = Ok /\ o.w.conn = conn /\ o.w.h = NoHandle /\ o.w.st = NoStmt
  PROVE  OdbcInv'
<1>1. st.alive /\ dbc.alive /\ dbc.m_isConnected
  BY WorldFacts DEF StmtCall
<1>2. PICK o \in outcomes :
        conn' = o.w.conn /\ h' = o.w.h /\ st' = o.w.st /\ Answer(o.ret) /\ UNCHANGED dbc
  BY <1>1 DEF StmtCall
<1>3. \/ Fair(o, dbc)
      \/ o.ret = Ok /\ o.w.conn = conn /\ o.w.h = NoHandle /\ o.w.st = NoStmt
  BY <1>2
<1>4. ret' = Ok
  BY <1>2, <1>3, Words DEF Answer, Fair
<1>5. \/ WorldFine(o.w, dbc) /\ dbc.alive /\ dbc.m_isConnected
      \/ o.w.conn = conn /\ o.w.h = NoHandle /\ o.w.st = NoStmt
  BY <1>1, <1>3 DEF Fair
<1> QED BY <1>2, <1>4, <1>5, LeftKeeps

LEMMA prepareKeeps ==
  ASSUME OdbcInv, NoResults, NEW sql \in Queries, prepare(sql)
  PROVE  OdbcInv'
<1> DEFINE outs == StmtPrepare(World, sql)
<1>1. StmtCall(outs) /\ st.alive
  BY DEF prepare, StmtCall
<1>2. WorldFine(World, dbc) /\ World.st.m_resultsets = <<>>
  BY <1>1, WorldFacts DEF NoResults
<1>3. \A o \in outs : Fair(o, dbc)
  BY <1>2, StmtPrepareFair
<1> HIDE DEF outs
<1> QED BY <1>1, <1>3, CallKeeps

LEMMA execDirectKeeps ==
  ASSUME OdbcInv, NoResults, NEW sql \in Queries, execDirect(sql)
  PROVE  OdbcInv'
<1> DEFINE outs == Then(StmtPrepare(World, sql), StmtExecute)
<1>1. StmtCall(outs) /\ st.alive
  BY DEF execDirect, StmtCall
<1>2. WorldFine(World, dbc) /\ World.st.m_resultsets = <<>> /\ Able(dbc)
  BY <1>1, WorldFacts DEF NoResults, OdbcInv
<1>3. ASSUME NEW x \in outs PROVE Fair(x, dbc)
  <2>1. PICK o \in StmtPrepare(World, sql) : IF o.ret = Ok THEN x \in StmtExecute(o.w) ELSE x = o
    BY <1>3 DEF Then
  <2>2. Fair(o, dbc) /\ o.w.st.m_params \in {"none", "fresh"}
    BY <1>2, <2>1, StmtPrepareFair
  <2> QED BY <1>2, <2>1, <2>2, StmtExecuteFair DEF Fair
<1> HIDE DEF outs
<1> QED BY <1>1, <1>3, CallKeeps

LEMMA executeKeeps ==
  ASSUME OdbcInv, st.m_params \in {"none", "fresh"}, execute
  PROVE  OdbcInv'
<1> DEFINE outs == StmtExecute(World)
<1>1. StmtCall(outs) /\ st.alive
  BY DEF execute, StmtCall
<1>2. WorldFine(World, dbc) /\ World.st.m_params \in {"none", "fresh"} /\ Able(dbc)
  BY <1>1, WorldFacts DEF OdbcInv
<1>3. \A o \in outs : Fair(o, dbc)
  BY <1>2, StmtExecuteFair
<1> HIDE DEF outs
<1> QED BY <1>1, <1>3, CallKeeps

LEMMA closeKeeps ==
  ASSUME OdbcInv, close
  PROVE  OdbcInv'
<1> DEFINE outs == StmtClose(World)
<1>1. StmtCall(outs) /\ st.alive
  BY DEF close, StmtCall
<1>2. WorldFine(World, dbc)
  BY <1>1, WorldFacts
<1>3. \A o \in outs : Fair(o, dbc)
  BY <1>2, StmtCloseEmpties, EmptiedFine, Words DEF Fair
<1> HIDE DEF outs
<1> QED BY <1>1, <1>3, CallKeeps

LEMMA deleteStatementKeeps ==
  ASSUME OdbcInv, deleteStatement
  PROVE  OdbcInv'
<1> DEFINE outs == StmtDestroy(World)
<1>1. StmtCall(outs) /\ st.alive
  BY DEF deleteStatement, StmtCall
<1>2. WorldFine(World, dbc) /\ World.conn = conn
  BY <1>1, WorldFacts
<1>3. \A o \in outs : o.ret = Ok /\ o.w.conn = conn /\ o.w.h = NoHandle /\ o.w.st = NoStmt
  BY <1>2, StmtDestroyIs
<1> HIDE DEF outs
<1> QED BY <1>1, <1>3, CallKeeps

LEMMA setParamKeeps ==
  ASSUME OdbcInv, NEW p \in {"none", "fresh"}, setParam(p)
  PROVE  OdbcInv'
<1> DEFINE v == [World EXCEPT !.st.m_params = p]
<1>1. StmtCall(Gives(v, Ok)) /\ st.alive
  BY DEF setParam, StmtCall
<1>2. WorldFine(World, dbc) /\ p \in Params \ {"broken"} /\ p # "spent"
  BY <1>1, WorldFacts DEF Params
<1>3. WorldFine(v, dbc)
  <2> HIDE DEF World
  <2> QED BY <1>2, WithParams
<1> HIDE DEF v
<1>4. \A o \in Gives(v, Ok) : Fair(o, dbc)
  BY <1>3, GivesFacts, Words DEF Fair
<1> QED BY <1>1, <1>4, CallKeeps

\* A call of the resultset.
LEMMA ResultKeeps ==
  ASSUME OdbcInv, NEW outs,
         StmtCall(IF st.m_resultsets = <<>> THEN Gives(World, Throw) ELSE Of(World, 1, outs)),
         ASSUME st.alive, st.m_resultsets # <<>>, ResultFine(st.m_resultsets[1], h, dbc),
                HandleFine(h), h.live, Able(dbc)
         PROVE  \A o \in outs : Good(o, h, dbc)
  PROVE  OdbcInv'
<1> DEFINE all == IF st.m_resultsets = <<>> THEN Gives(World, Throw) ELSE Of(World, 1, outs)
<1>1. StmtCall(all) /\ st.alive
  BY DEF StmtCall
<1>2. WorldFine(World, dbc) /\ World.h = h /\ World.st = st /\ Able(dbc)
  BY <1>1, WorldFacts DEF OdbcInv
<1>3. ASSUME NEW x \in all PROVE Fair(x, dbc)
  <2>1. CASE st.m_resultsets = <<>>
    <3>1. x \in Gives(World, Throw)
      BY <1>3, <2>1
    <3> HIDE DEF World
    <3> QED BY <1>2, <3>1, GivesFacts, Words DEF Fair
  <2>2. CASE st.m_resultsets # <<>>
    <3>1. ResultFine(st.m_resultsets[1], h, dbc) /\ HandleFine(h) /\ h.live
      BY <1>1, <2>2 DEF OdbcInv, StmtFine
    <3>2. \A o \in outs : Good(o, World.h, dbc)
      BY <1>1, <1>2, <2>2, <3>1
    <3>3. x \in Of(World, 1, outs)
      BY <1>3, <2>2
    <3> HIDE DEF World
    <3> QED BY <1>2, <2>2, <3>2, <3>3, OfGood
  <2> QED BY <2>1, <2>2
<1> HIDE DEF all
<1> QED BY <1>1, <1>3, CallKeeps

LEMMA firstKeeps == ASSUME OdbcInv, first PROVE OdbcInv'
<1> DEFINE outs == RsFirst(st.m_resultsets[1], h, dbc)
<1>1. StmtCall(IF st.m_resultsets = <<>> THEN Gives(World, Throw) ELSE Of(World, 1, outs))
  BY DEF first, ResultCall
<1>2. ASSUME ResultFine(st.m_resultsets[1], h, dbc), HandleFine(h), h.live, Able(dbc)
      PROVE  \A o \in outs : Good(o, h, dbc)
  BY <1>2, FirstGood
<1> HIDE DEF outs
<1> QED BY <1>1, <1>2, ResultKeeps

LEMMA nextKeeps == ASSUME OdbcInv, Positioned(Result), next PROVE OdbcInv'
<1> DEFINE outs == RsNext(st.m_resultsets[1], h, dbc)
<1>1. StmtCall(IF st.m_resultsets = <<>> THEN Gives(World, Throw) ELSE Of(World, 1, outs))
  BY DEF next, ResultCall
<1>2. ASSUME ResultFine(st.m_resultsets[1], h, dbc), HandleFine(h), h.live, Able(dbc)
      PROVE  \A o \in outs : Good(o, h, dbc)
  BY <1>2, NextGood DEF Result
<1> HIDE DEF outs
<1> QED BY <1>1, <1>2, ResultKeeps

LEMMA columnKeeps ==
  ASSUME OdbcInv, NEW num, Result.buf[num] # NoRow, column(num)
  PROVE  OdbcInv'
<1> DEFINE outs == RsColumn(st.m_resultsets[1], h, num)
<1>1. StmtCall(IF st.m_resultsets = <<>> THEN Gives(World, Throw) ELSE Of(World, 1, outs))
  BY DEF column, ResultCall
<1>2. ASSUME ResultFine(st.m_resultsets[1], h, dbc), HandleFine(h), h.live, Able(dbc)
      PROVE  \A o \in outs : Good(o, h, dbc)
  BY <1>2, ColumnGood DEF Result
<1> HIDE DEF outs
<1> QED BY <1>1, <1>2, ResultKeeps

LEMMA getBlobKeeps == ASSUME OdbcInv, LiveRow, h.part = 0, getBlob PROVE OdbcInv'
<1> DEFINE outs == RsGetBlob(st.m_resultsets[1], h, dbc)
<1>1. StmtCall(IF st.m_resultsets = <<>> THEN Gives(World, Throw) ELSE Of(World, 1, outs))
  BY DEF getBlob, ResultCall
<1>2. ASSUME ResultFine(st.m_resultsets[1], h, dbc), HandleFine(h), h.live, Able(dbc)
      PROVE  \A o \in outs : Good(o, h, dbc)
  BY <1>2, GetBlobGood DEF Result, LiveRow, Live
<1> HIDE DEF outs
<1> QED BY <1>1, <1>2, ResultKeeps

LEMMA getBlobStreamKeeps == ASSUME OdbcInv, LiveRow, getBlobStream PROVE OdbcInv'
<1> DEFINE outs == RsGetBlobStream(st.m_resultsets[1], h)
<1>1. StmtCall(IF st.m_resultsets = <<>> THEN Gives(World, Throw) ELSE Of(World, 1, outs))
  BY DEF getBlobStream, ResultCall
<1>2. ASSUME ResultFine(st.m_resultsets[1], h, dbc), HandleFine(h), h.live, Able(dbc)
      PROVE  \A o \in outs : Good(o, h, dbc)
  BY <1>2, GetBlobStreamGood DEF Result, LiveRow, Live
<1> HIDE DEF outs
<1> QED BY <1>1, <1>2, ResultKeeps

LEMMA readStreamKeeps == ASSUME OdbcInv, Result.lob # NoLob, readStream PROVE OdbcInv'
<1> DEFINE outs == RsReadStream(st.m_resultsets[1], h, dbc)
<1>1. StmtCall(IF st.m_resultsets = <<>> THEN Gives(World, Throw) ELSE Of(World, 1, outs))
  BY DEF readStream, ResultCall
<1>2. ASSUME ResultFine(st.m_resultsets[1], h, dbc), HandleFine(h), h.live, Able(dbc)
      PROVE  \A o \in outs : Good(o, h, dbc)
  BY <1>2, ReadStreamGood DEF Result
<1> HIDE DEF outs
<1> QED BY <1>1, <1>2, ResultKeeps

LEMMA askKeeps == ASSUME OdbcInv, ask PROVE OdbcInv'
<1> DEFINE r == st.m_resultsets[1]
           Asks(num) == RsEof(r, h) \union RsRowID(r, h) \union RsColumnCount(r, h)
                          \union RsColumnID(r, h) \union RsParamCount(r, h)
                          \union RsAffectedRows(r, h) \union RsLastInsertRowId(r, h)
                          \union RsRowCount(r, h) \union RsDescribeColumn(r, h, num)
<1>1. PICK outs :
        /\ StmtCall(IF st.m_resultsets = <<>> THEN Gives(World, Throw) ELSE Of(World, 1, outs))
        /\ \E num : outs \subseteq Asks(num)
  BY DEF ask, ResultCall
<1> HIDE DEF Asks
<1>2. ASSUME ResultFine(r, h, dbc), HandleFine(h), h.live, Able(dbc)
      PROVE  \A o \in outs : Good(o, h, dbc)
  BY <1>1, <1>2, AskGood DEF Asks
<1> QED BY <1>1, <1>2, ResultKeeps

-----------------------------------------------------------------------------
(* New statements                                                          *)

LEMMA FreshIs ==
  ASSUME OdbcInv, dbc.m_isConnected, NEW x \in Fresh
  PROVE  x.ret = Ok /\ Emptied(x.w, World)
<1> DEFINE v == [World EXCEPT !.st = NewStmt, !.h = NewHandle]
           a == [World EXCEPT !.st = NewStmt]
<1>1. x.w = v /\ x.ret = Ok
  <2>1. x \in Gives(v, Ok)
    BY DEF Fresh
  <2> HIDE DEF v
  <2> QED BY <2>1, GivesFacts
<1>2. World \in Worlds /\ World.conn = conn /\ Settled(conn)
  BY WorldFacts DEF OdbcInv
<1> HIDE DEF World
<1>3. a \in Worlds /\ a.st = NewStmt /\ a.conn = World.conn
  BY <1>2, NewFacts, WithStmt
<1>4. v = [a EXCEPT !.h = NewHandle]
  OBVIOUS
<1> HIDE DEF a, v
<1>5. v \in Worlds /\ v.st = NewStmt /\ v.conn = World.conn /\ v.h = NewHandle
  BY <1>3, <1>4, NewFacts, WithHandle DEF HandleFine
<1> QED BY <1>1, <1>2, <1>5, NewFacts DEF Emptied

LEMMA newStatementKeeps ==
  ASSUME OdbcInv, dbc.m_isConnected, newStatement
  PROVE  OdbcInv'
<1>1. PICK o \in Fresh :
        conn' = o.w.conn /\ h' = o.w.h /\ st' = o.w.st /\ Answer(o.ret) /\ UNCHANGED dbc
  BY DEF newStatement, Made
<1>2. o.ret = Ok /\ Emptied(o.w, World) /\ dbc.alive
  BY <1>1, FreshIs DEF newStatement, Made
<1>3. WorldFine(o.w, dbc)
  BY <1>2, EmptiedFine
<1>4. ret' = Ok
  BY <1>1, <1>2, Words DEF Answer
<1> QED BY <1>1, <1>2, <1>3, <1>4, LeftKeeps

\* The catalog functions open a resultset, or the statement is lost.
LEMMA StmtOpenIs ==
  ASSUME NEW w, NEW u, Emptied(w, u), Able(dbc), NEW x \in StmtOpen(w)
  PROVE  /\ x = [w |-> x.w, ret |-> x.ret]
         /\ x.ret = Throw \/ (x.ret = Ok /\ WorldFine(x.w, dbc))
<1> DEFINE set == SetCursorState(CLOSED, "OPEN")
<1>1. /\ w \in Worlds /\ w.st.m_resultsets = <<>> /\ w.st.alive /\ w.st.m_params = "none"
      /\ HandleFine(w.h) /\ w.h \in Handles /\ w.h.live /\ w.h.bound = {} /\ Settled(w.conn)
  BY NewFacts DEF Emptied, HandleFine
<1>2. Len(w.st.m_resultsets) + 1 = 1
  <2>1. Len(<<>>) + 1 = 1
    OBVIOUS
  <2> QED BY <1>1, <2>1
<1>3. PICK c \in OpensCatalog(w.h) :
        LET v == [Added(w) EXCEPT !.h = c[1]]
        IN  x \in IF c[2] = "ERROR" THEN Gives(v, Throw)
                  ELSE LET opened == [SetStmtState(v, "OPEN") EXCEPT
                                        !.st.m_resultsets[1].m_cursorstate = set]
                       IN  Of(opened, 1, RefreshMetadata(opened.st.m_resultsets[1], opened.h, dbc))
  BY <1>2 DEF StmtOpen
<1> DEFINE v == [Added(w) EXCEPT !.h = c[1]]
           s == SetStmtState(v, "OPEN")
           o == [s EXCEPT !.st.m_resultsets[1].m_cursorstate = set]
           outs == RefreshMetadata(o.st.m_resultsets[1], o.h, dbc)
<1>4. CASE c[2] = "ERROR"
  <2>1. x \in Gives(v, Throw)
    BY <1>3, <1>4
  <2> QED BY <2>1 DEF Gives
<1>5. CASE c[2] # "ERROR"
  <2> DEFINE a == [w.h EXCEPT !.text = NoQuery]
             b == [a EXCEPT !.cursor = "open"]
             k == [b EXCEPT !.at = NoRow]
             q == [ResultInit EXCEPT !.m_cursorstate = set]
  <2>1. x \in Of(o, 1, outs)
    BY <1>3, <1>5
  <2>2. c[1] = k
    BY <1>5 DEF OpensCatalog
  <2>3. a \in Handles /\ a.live /\ a.bound = {}
    BY <1>1 DEF Handles
  <2>4. b \in Handles /\ b.live /\ b.bound = {} /\ b.cursor = "open"
    <3> HIDE DEF a
    <3> QED BY <2>3 DEF Handles
  <2>5. k \in Handles /\ k.live /\ k.bound = {} /\ k.cursor = "open" /\ k.at = NoRow
    <3> HIDE DEF b
    <3> QED BY <2>4 DEF Handles, NoRow
  <2> HIDE DEF a, b, k
  <2>6. Put(Added(w), w, ResultInit, w.h)
    BY <1>1, AddedIs
  <2>7. Put(v, w, ResultInit, k)
    <3> HIDE DEF ResultInit
    <3>1. Added(w) \in Worlds
      BY <2>6 DEF Put
    <3>2. v \in Worlds /\ v.st = Added(w).st /\ v.conn = Added(w).conn /\ v.h = k
      BY <2>2, <2>5, <3>1, WithHandle
    <3> HIDE DEF v
    <3> QED BY <2>6, <3>2 DEF Put
  <2>8. HandleFine(k)
    BY <2>5 DEF HandleFine
  <2>9. WorldFine(v, dbc)
    <3>1. ResultFine(ResultInit, k, dbc)
      BY <2>5, InitObject, NotOpenFine
    <3> HIDE DEF v
    <3> QED BY <1>1, <2>5, <2>7, <2>8, <3>1, PutFine
  <2> HIDE DEF v
  <2>10. /\ WorldFine(s, dbc) /\ s.st.m_params = v.st.m_params
         /\ s.st.m_resultsets = v.st.m_resultsets /\ s.h = v.h
    <3>1. "OPEN" \in CursorFlags \ {"BAD"}
      BY DEF CursorFlags
    <3> QED BY <2>9, <3>1, StateKept
  <2> HIDE DEF s
  <2>11. /\ s \in Worlds /\ Len(s.st.m_resultsets) = 1 /\ s.st.m_resultsets[1] = ResultInit
         /\ s.h = k /\ Settled(s.conn) /\ s.st.alive /\ s.st.m_params # "broken"
    <3> HIDE DEF ResultInit
    <3>1. s.st.m_resultsets = <<ResultInit>> /\ s.h = k
      BY <2>7, <2>10 DEF Put
    <3> QED BY <2>10, <3>1 DEF WorldFine, StmtFine
  <2>12. set = {"PREPARED", "OPEN"} /\ set \in SUBSET CursorFlags
    BY Masks DEF SetCursorState, CursorFlags
  <2> HIDE DEF set
  <2>13. Put(o, s, q, k)
    <3> HIDE DEF ResultInit
    <3> QED BY <2>11, <2>12, StateUpdated
  <2>14. /\ q \in Objects /\ q.m_cursorstate = set /\ q.m_current_tuple = 0
    <3> HIDE DEF ResultInit
    <3> QED BY <2>12, InitObject DEF Objects
  <2> HIDE DEF o, q
  <2>15. /\ o \in Worlds /\ Len(o.st.m_resultsets) = 1 /\ o.st.m_resultsets[1] = q
         /\ o.h = k /\ Settled(o.conn) /\ o.st.alive /\ o.st.m_params # "broken"
    <3>1. o.st.m_resultsets = <<q>> /\ o.h = k
      BY <2>13 DEF Put
    <3> QED BY <2>11, <2>13, <3>1 DEF Put
  <2>16. ASSUME NEW y \in outs
         PROVE  Described(y, q, k, dbc, Width) /\ Attached(y.rs, y.h, dbc)
    BY <2>5, <2>14, <2>15, RefreshMetadataSound
  <2> HIDE DEF outs
  <2>17. \A y \in outs : y.rs \in Objects /\ y.h \in Handles
    BY <2>16 DEF Described, Binding
  <2>18. PICK y \in outs : x.ret = y.ret /\ Put(x.w, o, y.rs, y.h)
    BY <2>1, <2>15, <2>17, OfIs
  <2>19. /\ y.rs \in Objects /\ IsOpen(y.rs) /\ ~Positioned(y.rs) /\ ~IsEof(y.rs) /\ ~IsBad(y.rs)
         /\ y.h \in Handles /\ y.h.live /\ y.h.cursor = "open" /\ y.h.at = NoRow
         /\ Attached(y.rs, y.h, dbc) /\ y.ret \in {Ok, Throw}
    <3>1. y.rs.m_cursorstate = {"PREPARED", "OPEN"}
      BY <2>12, <2>14, <2>16 DEF Described
    <3> QED BY <2>5, <2>16, <3>1 DEF Described, Binding, IsOpen, Positioned, IsEof, IsBad
  <2>20. ResultFine(y.rs, y.h, dbc) /\ HandleFine(y.h)
    BY <2>19 DEF ResultFine, Prefixed, Live, Placed, HandleFine
  <2>21. WorldFine(x.w, dbc)
    BY <2>15, <2>18, <2>19, <2>20, PutFine
  <2>22. x = [w |-> x.w, ret |-> x.ret]
    BY <2>1, OfRecord
  <2> QED BY <2>18, <2>19, <2>21, <2>22
<1> QED BY <1>4, <1>5

LEMMA getOdbcTablesKeeps ==
  ASSUME OdbcInv, dbc.m_isConnected, getOdbcTables
  PROVE  OdbcInv'
<1>1. PICK o \in Then(Fresh, StmtOpen) :
        LET z == IF o.ret = Throw THEN [o EXCEPT !.w = World] ELSE o
        IN  conn' = z.w.conn /\ h' = z.w.h /\ st' = z.w.st /\ Answer(z.ret) /\ UNCHANGED dbc
  BY DEF getOdbcTables, Made
<1> DEFINE z == IF o.ret = Throw THEN [o EXCEPT !.w = World] ELSE o
<1>2. dbc.alive /\ Able(dbc)
  BY DEF getOdbcTables, Made, OdbcInv
<1>3. PICK p \in Fresh : IF p.ret = Ok THEN o \in StmtOpen(p.w) ELSE o = p
  BY <1>1 DEF Then
<1>4. p.ret = Ok /\ Emptied(p.w, World)
  BY <1>3, FreshIs
<1>5. /\ o = [w |-> o.w, ret |-> o.ret]
      /\ o.ret = Throw \/ (o.ret = Ok /\ WorldFine(o.w, dbc))
  BY <1>2, <1>3, <1>4, StmtOpenIs
<1>6. CASE o.ret = Throw
  <2>1. z = [o EXCEPT !.w = World]
    BY <1>1, <1>6
  <2> HIDE DEF World
  <2>2. z.w = World /\ z.ret = Throw
    BY <1>5, <1>6, <2>1
  <2>3. ret' = Ok
    BY <1>1, <2>2, Words DEF Answer
  <2>4. conn' = conn /\ h' = h /\ st' = st /\ UNCHANGED dbc
    BY <1>1, <2>2, WorldFacts
  <2> QED BY <2>3, <2>4 DEF OdbcInv
<1>7. CASE o.ret = Ok
  <2>1. z = o
    BY <1>1, <1>7, Words
  <2>2. ret' = Ok
    BY <1>1, <1>7, <2>1, Words DEF Answer
  <2>3. WorldFine(o.w, dbc)
    BY <1>5, <1>7, Words
  <2> QED BY <1>1, <1>2, <2>1, <2>2, <2>3, LeftKeeps
<1> QED BY <1>5, <1>6, <1>7

-----------------------------------------------------------------------------
(* The connection                                                          *)

\* What a call of the connection leaves to a statement that is not touched.
LEMMA DbcKeeps ==
  ASSUME OdbcInv, NEW r, DbcCall(r), GoesOn(r), Able(dbc)', Settled(conn)',
         StmtFine(st, h, dbc)', UNCHANGED st, st.alive => dbc'.alive /\ dbc'.m_isConnected
  PROVE  OdbcInv'
<1>1. ret' = Ok
  BY DEF DbcCall, Answer
<1> QED BY <1>1 DEF OdbcInv

\* The end of a transaction may close a cursor, and the row is lost.
LEMMA ClosedFine ==
  ASSUME NEW s, NEW g, NEW d, StmtFine(s, g, d)
  PROVE  StmtFine(s, Closed(g), d)
<1> DEFINE a == [g EXCEPT !.cursor = "none"]
           k == [a EXCEPT !.failed = TRUE]
<1>1. g \in Handles
  BY DEF StmtFine, HandleFine
<1>2. /\ a \in Handles /\ a.live = g.live /\ a.cursor = "none" /\ a.bound = g.bound
  BY <1>1 DEF Handles
<1>3. /\ k \in Handles /\ k.live = g.live /\ k.cursor = "none" /\ k.bound = g.bound
  <2> HIDE DEF a
  <2> QED BY <1>2 DEF Handles
<1>4. k.failed = TRUE
  <2> HIDE DEF a
  <2> QED BY <1>2 DEF Handles
<1>5. Closed(g) = k
  BY DEF Closed
<1> HIDE DEF k
<1>6. \A r : ResultFine(r, g, d) => ResultFine(r, k, d)
  BY <1>3, <1>4 DEF ResultFine, Attached, Reachable
<1> QED BY <1>3, <1>5, <1>6 DEF StmtFine, HandleFine

LEMMA connectKeeps == ASSUME OdbcInv, connect PROVE OdbcInv'
<1>1. ~dbc.m_isConnected /\ ~st.alive /\ st.m_resultsets = <<>>
  BY DEF connect, OdbcInv
<1>2. StmtFine(st, h, dbc)' /\ UNCHANGED st
  BY <1>1 DEF connect, OdbcInv, StmtFine
<1>3. Settled(conn)'
  BY DEF connect, NewConn, Settled, Conns
<1>4. CASE DbcCall(Throw) /\ UNCHANGED dbc
  <2>1. Able(dbc)'
    BY <1>4 DEF OdbcInv
  <2> QED BY <1>1, <1>2, <1>3, <1>4, <2>1, DbcKeeps, Words
<1>5. ASSUME NEW ext \in Drivers, NEW needLength \in BOOLEAN, DbcCall(Ok),
             dbc' = [dbc EXCEPT !.m_isConnected = TRUE, !.ext = ext, !.needLength = needLength,
                                !.deferred = Extensions \subseteq ext]
      PROVE  OdbcInv'
  <2> DEFINE a == [dbc EXCEPT !.m_isConnected = TRUE]
             b == [a EXCEPT !.ext = ext]
             c == [b EXCEPT !.needLength = needLength]
             e == [c EXCEPT !.deferred = Extensions \subseteq ext]
  <2>1. dbc' = e
    BY <1>5
  <2>2. ext \subseteq Extensions
    BY ConnectionAssumption
  <2>3. dbc \in Connections
    BY DEF OdbcInv, Able
  <2>4. a \in Connections
    BY <2>3 DEF Connections
  <2>5. b \in Connections /\ b.ext = ext
    <3> HIDE DEF a
    <3> QED BY <2>2, <2>4 DEF Connections
  <2>6. c \in Connections /\ c.ext = ext
    <3> HIDE DEF b
    <3> QED BY <2>5 DEF Connections
  <2> DEFINE all == Extensions \subseteq ext
  <2>7. all \in BOOLEAN
    OBVIOUS
  <2> HIDE DEF all
  <2>8. [c EXCEPT !.deferred = all] \in Connections /\ [c EXCEPT !.deferred = all].ext = ext
    <3> HIDE DEF c
    <3> QED BY <2>6, <2>7 DEF Connections
  <2>9. [c EXCEPT !.deferred = all].deferred = all
    <3> HIDE DEF c
    <3> QED BY <2>6 DEF Connections
  <2>10. e = [c EXCEPT !.deferred = all]
    BY DEF all
  <2> HIDE DEF e, c
  <2>11. e \in Connections /\ e.ext = ext /\ e.deferred = all
    BY <2>8, <2>9, <2>10
  <2>12. Able(e)
    BY <2>2, <2>11 DEF Able, all
  <2>13. Able(dbc)'
    BY <2>1, <2>12
  <2> QED BY <1>1, <1>2, <1>3, <1>5, <2>13, DbcKeeps, Words
<1> QED BY <1>4, <1>5 DEF connect

LEMMA setOptionKeeps ==
  ASSUME OdbcInv, NoResults, NEW b \in BOOLEAN, b => Extensions \subseteq dbc.ext, setOption(b)
  PROVE  OdbcInv'
<1>1. dbc \in Connections /\ DbcCall(Ok) /\ dbc' = [dbc EXCEPT !.deferred = b]
      /\ UNCHANGED <<conn, h, st>>
  BY DEF OdbcInv, Able, setOption
<1>2. dbc' \in Connections /\ dbc'.ext = dbc.ext /\ dbc'.alive = dbc.alive
      /\ dbc'.m_isConnected = dbc.m_isConnected
  BY <1>1 DEF Connections
<1>3. dbc'.deferred = b
  BY <1>1 DEF Connections
<1>4. Able(dbc)'
  <2>1. dbc.ext \subseteq Extensions
    BY <1>1 DEF Connections
  <2> QED BY <1>2, <1>3, <2>1 DEF Able
<1>5. StmtFine(st, h, dbc)' /\ Settled(conn)'
  BY <1>1 DEF NoResults, OdbcInv, StmtFine
<1>6. st.alive => dbc'.alive /\ dbc'.m_isConnected
  BY <1>2 DEF OdbcInv
<1> QED BY <1>1, <1>4, <1>5, <1>6, DbcKeeps, Words

\* Without a statement the connection may go.
LEMMA GoneKeeps ==
  ASSUME OdbcInv, ~st.alive, NEW r, DbcCall(r), GoesOn(r), UNCHANGED <<conn, st>>,
         NEW a \in BOOLEAN,
         \/ UNCHANGED <<dbc, h>>
         \/ Disconnected([dbc EXCEPT !.alive = a])
  PROVE  OdbcInv'
<1>1. CASE UNCHANGED <<dbc, h>>
  <2>1. Able(dbc)' /\ Settled(conn)' /\ StmtFine(st, h, dbc)'
    BY <1>1 DEF OdbcInv
  <2> QED BY <1>1, <2>1, DbcKeeps
<1>2. CASE Disconnected([dbc EXCEPT !.alive = a])
  <2> DEFINE c == [dbc EXCEPT !.alive = a]
             e == [c EXCEPT !.m_isConnected = FALSE]
  <2>1. dbc \in Connections /\ Able(dbc) /\ st.m_resultsets = <<>>
    BY DEF OdbcInv, Able
  <2>2. c \in Connections /\ c.ext = dbc.ext /\ c.deferred = dbc.deferred
    BY <2>1 DEF Connections
  <2>3. e \in Connections /\ e.ext = dbc.ext /\ e.deferred = dbc.deferred
    <3> HIDE DEF c
    <3> QED BY <2>2 DEF Connections
  <2>4. dbc' = e /\ h' = NoHandle
    BY <1>2 DEF Disconnected
  <2> HIDE DEF e
  <2>5. Able(dbc)' /\ Settled(conn)'
    BY <2>1, <2>3, <2>4 DEF Able, OdbcInv
  <2>6. StmtFine(st, h, dbc)'
    BY <2>1, <2>4, NewFacts DEF StmtFine, OdbcInv
  <2> QED BY <2>5, <2>6, DbcKeeps
<1> QED BY <1>1, <1>2

LEMMA disconnectKeeps == ASSUME OdbcInv, ~st.alive, disconnect PROVE OdbcInv'
<1>1. UNCHANGED <<conn, st>>
  BY DEF disconnect
<1>2. dbc.alive \in BOOLEAN /\ [dbc EXCEPT !.alive = dbc.alive] = dbc
  BY DEF OdbcInv, Able, Connections
<1>3. CASE DbcCall(Ok) /\ Disconnected(dbc)
  <2>1. Disconnected([dbc EXCEPT !.alive = dbc.alive])
    BY <1>2, <1>3
  <2> QED BY <1>1, <1>2, <1>3, <2>1, GoneKeeps, Words
<1>4. CASE DbcCall(IF dbc.m_isConnected THEN Throw ELSE Ok) /\ UNCHANGED <<dbc, h>>
  <2> DEFINE r == IF dbc.m_isConnected THEN Throw ELSE Ok
  <2>1. GoesOn(r) /\ DbcCall(r)
    BY <1>4, Words
  <2> HIDE DEF r
  <2> QED BY <1>1, <1>2, <1>4, <2>1, GoneKeeps
<1> QED BY <1>3, <1>4 DEF disconnect

LEMMA deleteConnectionKeeps ==
  ASSUME OdbcInv, ~st.alive, conn.work # "pending", deleteConnection
  PROVE  OdbcInv'
<1>1. "OK" \in Disconnects(conn)
  BY DEF Disconnects
<1>2. DbcCall(Ok) /\ Disconnected([dbc EXCEPT !.alive = FALSE]) /\ UNCHANGED <<conn, st>>
  BY <1>1 DEF deleteConnection
<1> QED BY <1>2, GoneKeeps, Words

LEMMA beginTransKeeps == ASSUME OdbcInv, beginTrans PROVE OdbcInv'
<1>1. PICK s \in Switches(conn, FALSE) :
        /\ conn' = s[1]
        /\ IF s[2] = "ERROR" THEN DbcCall(Throw)
           ELSE \E code \in Isolates(s[1]) : DbcCall(IF code = "OK" THEN Ok ELSE Throw)
  BY DEF beginTrans
<1>2. UNCHANGED <<dbc, h, st>>
  BY DEF beginTrans
<1>3. Settled(conn)'
  <2> DEFINE a == [conn EXCEPT !.autocommit = FALSE]
             b == [a EXCEPT !.work = conn.work]
  <2>1. Settled(conn)
    BY DEF OdbcInv
  <2>2. a \in Conns /\ a.work = conn.work /\ a.asked = conn.asked
    BY <2>1 DEF Settled, Conns
  <2>3. b \in Conns /\ b.work = conn.work /\ b.asked = conn.asked
    <3> HIDE DEF a
    <3> QED BY <2>1, <2>2 DEF Settled, Conns
  <2>4. s[1] \in {conn, b}
    BY DEF Switches
  <2> HIDE DEF b
  <2> QED BY <1>1, <2>1, <2>3, <2>4 DEF Settled
<1>4. Able(dbc)' /\ StmtFine(st, h, dbc)' /\ (st.alive => dbc'.alive /\ dbc'.m_isConnected)
  BY <1>2 DEF OdbcInv
<1>5. DbcCall(Throw) \/ DbcCall(Ok)
  BY <1>1
<1> QED BY <1>2, <1>3, <1>4, <1>5, DbcKeeps, Words

\* What the client asked for is noted, and becomes of the changes.
LEMMA Ending ==
  ASSUME NEW k, Settled(k), NEW how \in {"kept", "undone"},
         NEW a, a = IF k.work = "pending" THEN [k EXCEPT !.asked = how] ELSE k,
         NEW g, NEW e \in Ends(a, g, how)
  PROVE  /\ Settled(e.conn)
         /\ e.code \in {"OK", "ERROR"}
         /\ e.code = "OK" => e.conn.work # "pending"
         /\ e.h = g \/ e.h = Closed(g)
<1>1. k \in Conns
  BY DEF Settled
<1>2. a \in Conns /\ Settled(a) /\ (a.work = "pending" => a.asked = how)
  <2>1. CASE k.work = "pending"
    BY <1>1, <2>1 DEF Settled, Conns
  <2>2. CASE k.work # "pending"
    BY <2>2 DEF Settled
  <2> QED BY <2>1, <2>2
<1> DEFINE m == IF a.work = "pending" THEN how ELSE a.work
           b == [a EXCEPT !.work = m]
<1>3. b \in Conns /\ b.work = m /\ b.asked = a.asked
  BY <1>2 DEF Conns
<1>4. m # "pending" /\ (m \in {"kept", "undone"} => a.asked = m)
  BY <1>2 DEF Settled
<1>5. Settled(b) /\ b.work # "pending"
  BY <1>3, <1>4 DEF Settled
<1>6. \/ e = Execution(a, g, "ERROR")
      \/ \E f \in {g, Closed(g)} : e = Execution(b, f, "OK")
  BY DEF Ends
<1> HIDE DEF b
<1>7. CASE e = Execution(a, g, "ERROR")
  BY <1>2, <1>7 DEF Execution
<1>8. ASSUME NEW f \in {g, Closed(g)}, e = Execution(b, f, "OK")
      PROVE  /\ Settled(e.conn) /\ e.code \in {"OK", "ERROR"} /\ e.conn.work # "pending"
             /\ e.h = g \/ e.h = Closed(g)
  BY <1>5, <1>8 DEF Execution
<1> QED BY <1>6, <1>7, <1>8

LEMMA EndTransKeeps ==
  ASSUME OdbcInv, NEW how \in {"kept", "undone"}, EndTrans(how)
  PROVE  OdbcInv'
<1>1. PICK e \in Ends(Asking(how), h, how) :
        /\ h' = e.h
        /\ IF e.code = "ERROR" THEN DbcCall(Throw) /\ conn' = e.conn
           ELSE \E s \in Switches(e.conn, TRUE) :
                  /\ DbcCall(IF s[2] = "OK" THEN Ok ELSE Throw)
                  /\ conn' = s[1]
  BY DEF EndTrans
<1>2. UNCHANGED <<dbc, st>>
  BY DEF EndTrans
<1>3. /\ Settled(e.conn) /\ e.code \in {"OK", "ERROR"}
      /\ e.code = "OK" => e.conn.work # "pending"
      /\ e.h = h \/ e.h = Closed(h)
  <2>1. Settled(conn)
    BY DEF OdbcInv
  <2> QED BY <2>1, Ending DEF Asking
<1>4. StmtFine(st, h, dbc)' /\ Able(dbc)' /\ (st.alive => dbc'.alive /\ dbc'.m_isConnected)
  BY <1>1, <1>2, <1>3, ClosedFine DEF OdbcInv
<1>5. CASE e.code = "ERROR"
  <2>1. DbcCall(Throw) /\ Settled(conn)'
    BY <1>1, <1>3, <1>5
  <2> QED BY <1>2, <1>4, <2>1, DbcKeeps, Words
<1>6. CASE e.code # "ERROR"
  <2>1. PICK s \in Switches(e.conn, TRUE) :
          DbcCall(IF s[2] = "OK" THEN Ok ELSE Throw) /\ conn' = s[1]
    BY <1>1, <1>6
  <2>2. Settled(s[1])
    <3> DEFINE a == [e.conn EXCEPT !.autocommit = TRUE]
               b == [a EXCEPT !.work = e.conn.work]
    <3>1. e.conn \in Conns /\ e.conn.work # "pending"
      BY <1>3, <1>6 DEF Settled
    <3>2. a \in Conns /\ a.work = e.conn.work /\ a.asked = e.conn.asked
      BY <3>1 DEF Conns
    <3>3. b \in Conns /\ b.work = e.conn.work /\ b.asked = e.conn.asked
      <4> HIDE DEF a
      <4> QED BY <3>1, <3>2 DEF Conns
    <3>4. s[1] \in {e.conn, b}
      BY <3>1 DEF Switches
    <3> HIDE DEF b
    <3> QED BY <1>3, <3>3, <3>4 DEF Settled
  <2>3. DbcCall(Throw) \/ DbcCall(Ok)
    BY <2>1
  <2>4. Settled(conn)'
    BY <2>1, <2>2
  <2> QED BY <1>2, <1>4, <2>3, <2>4, DbcKeeps, Words
<1> QED BY <1>5, <1>6

LEMMA savepointKeeps == ASSUME OdbcInv, savepoint PROVE OdbcInv'
<1>1. DbcCall(Throw) /\ UNCHANGED <<dbc, conn, h, st>>
  BY DEF savepoint
<1>2. /\ Able(dbc)' /\ Settled(conn)' /\ StmtFine(st, h, dbc)'
      /\ st.alive => dbc'.alive /\ dbc'.m_isConnected
  BY <1>1 DEF OdbcInv
<1> QED BY <1>1, <1>2, DbcKeeps, Words

-----------------------------------------------------------------------------
(* The theorems                                                            *)

LEMMA OdbcInit == Init => OdbcInv
<1> SUFFICES ASSUME Init PROVE OdbcInv
  OBVIOUS
<1>1. Able(dbc)
  BY DEF Init, Able, Connections, Extensions
<1>2. Settled(conn)
  BY DEF Init, NewConn, Settled, Conns
<1>3. StmtFine(st, h, dbc) /\ ~st.alive /\ st.m_resultsets = <<>>
  <2>1. st = NoStmt /\ h = NoHandle
    BY DEF Init
  <2> QED BY <2>1, NewFacts DEF StmtFine
<1>4. ret = Ok
  BY DEF Init
<1> QED BY <1>1, <1>2, <1>3, <1>4 DEF OdbcInv

LEMMA ProtocolStep == OdbcInv /\ [Protocol]_vars => OdbcInv'
<1> SUFFICES ASSUME OdbcInv, [Protocol]_vars PROVE OdbcInv'
  OBVIOUS
<1>1. CASE UNCHANGED vars
  BY <1>1 DEF vars, OdbcInv
<1>2. CASE connect \/ beginTrans \/ commit \/ rollback \/ savepoint
  BY <1>2, connectKeeps, beginTransKeeps, EndTransKeeps, savepointKeeps DEF commit, rollback
<1>3. CASE conn.work # "pending" /\ ~st.alive /\ (disconnect \/ deleteConnection)
  BY <1>3, disconnectKeeps, deleteConnectionKeeps
<1>4. CASE dbc.m_isConnected /\ (newStatement \/ getOdbcTables)
  BY <1>4, newStatementKeeps, getOdbcTablesKeeps
<1>5. CASE NoResults /\ \/ setOption(FALSE)
                        \/ Extensions \subseteq dbc.ext /\ setOption(TRUE)
                        \/ \E sql \in Queries : prepare(sql) \/ execDirect(sql)
  <2>1. CASE setOption(FALSE)
    <3>1. FALSE \in BOOLEAN
      OBVIOUS
    <3> QED BY <1>5, <2>1, <3>1, setOptionKeeps
  <2>2. CASE Extensions \subseteq dbc.ext /\ setOption(TRUE)
    <3>1. TRUE \in BOOLEAN
      OBVIOUS
    <3> QED BY <1>5, <2>2, <3>1, setOptionKeeps
  <2> QED BY <1>5, <2>1, <2>2, prepareKeeps, execDirectKeeps
<1>6. CASE (\E p \in {"none", "fresh"} : setParam(p)) \/ close \/ deleteStatement \/ first \/ ask
  BY <1>6, setParamKeeps, closeKeeps, deleteStatementKeeps, firstKeeps, askKeeps
<1>7. CASE st.m_params \in {"none", "fresh"} /\ execute
  BY <1>7, executeKeeps
<1>8. CASE ~NoResults /\ Positioned(Result) /\ next
  BY <1>8, nextKeeps
<1>9. CASE LiveRow /\ \/ \E num \in 1 .. Width : num # Lob /\ Result.buf[num] # NoRow /\ column(num)
                      \/ h.part = 0 /\ getBlob
                      \/ getBlobStream
                      \/ Result.lob # NoLob /\ readStream
  BY <1>9, columnKeeps, getBlobKeeps, getBlobStreamKeeps, readStreamKeeps
<1> QED BY <1>1, <1>2, <1>3, <1>4, <1>5, <1>6, <1>7, <1>8, <1>9 DEF Protocol

\* The invariant holds of a client that keeps the protocol, for every driver: it
\* joins what the object, its buffers and its LOB say of the driver's cursor,
\* what is bound with what the driver can give besides, and the changes with
\* the end that was asked for.
THEOREM OdbcInductive == ProtocolSpec => []OdbcInv
BY OdbcInit, ProtocolStep, PTL DEF ProtocolSpec

LEMMA DefinedByInv == OdbcInv => Defined
BY Words DEF OdbcInv, Defined, Running

\* No call of the protocol uses a deleted connection or a stream that is gone,
\* fails in an assert, or throws out of a destructor, whatever the driver does.
THEOREM CallsDefined == ProtocolSpec => []Defined
BY OdbcInductive, DefinedByInv, PTL

\* What a row that was not lost says.
LEMMA LiveRowFacts ==
  ASSUME OdbcInv, LiveRow, ~h.failed
  PROVE  /\ Result.m_current_tuple = h.at /\ OfRow(Result, dbc, h.at)
<1>1. st.m_resultsets # <<>> /\ Live(Result) /\ IsOpen(Result)
  BY DEF LiveRow, NoResults, Live, Unusable
<1>2. ResultFine(Result, h, dbc)
  BY <1>1 DEF OdbcInv, StmtFine, Result
<1>3. h.cursor = "open" /\ OfRow(Result, dbc, h.at) /\ Placed(Result, h)
  BY <1>1, <1>2 DEF ResultFine
<1>4. Result.m_current_tuple = h.at
  BY <1>1, <1>3 DEF Placed, Live
<1> QED BY <1>3, <1>4

LEMMA RowsByInv == OdbcInv => RowsInStep
<1> SUFFICES ASSUME OdbcInv, LiveRow, ~h.failed
             PROVE  /\ Result.m_current_tuple = h.at
                    /\ \A c \in Result.m_column_accessors \ {0, Lob} : Result.buf[c] = h.at
                    /\ {Result.lob.stream, Result.lob.cache} \subseteq {NoRow, h.at}
  BY DEF RowsInStep
<1> QED BY LiveRowFacts DEF OfRow, LobOf

\* On a row the driver delivered, the row number, the buffer of every column,
\* bound or not, and the LOB are those of the row its cursor is at.
THEOREM RowsStayInStep == ProtocolSpec => []RowsInStep
BY OdbcInductive, RowsByInv, PTL

LEMMA LobsByInv == OdbcInv => LobsWhole
<1> SUFFICES ASSUME OdbcInv, LiveRow, ~h.failed, Result.lob.cache # NoRow
             PROVE  Result.lob.has = LobParts[Result.lob.cache]
  BY DEF LobsWhole
<1>1. LobOf(Result, dbc, h.at)
  BY LiveRowFacts DEF OfRow
<1> QED BY <1>1 DEF LobOf

\* A LOB that is cached has all its parts: no driver refuses one of them for
\* what it cannot do, since the columns are bound, or not, as it needs.
THEOREM LobsReadWhole == ProtocolSpec => []LobsWhole
BY OdbcInductive, LobsByInv, PTL

LEMMA SettledByInv == OdbcInv => SettledAsAsked
BY DEF OdbcInv, Settled, SettledAsAsked

\* Changes become permanent by commit() and are undone by rollback() only:
\* autocommit is switched on after the end that was asked for.
THEOREM ChangesSettled == ProtocolSpec => []SettledAsAsked
BY OdbcInductive, SettledByInv, PTL
=============================================================================
