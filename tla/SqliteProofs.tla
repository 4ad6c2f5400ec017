---------------------------- MODULE SqliteProofs ----------------------------
(***************************************************************************)
(* What a SqliteDbc_libsqlite and its statements promise to a client that  *)
(* keeps the protocol, for any number of statements, connections, queries  *)
(* and parameters: no connection and no machine is lost or shared, nothing *)
(* is used after it was freed, and a query runs with the values that were  *)
(* bound for it.                                                           *)
(***************************************************************************)
EXTENDS Sqlite, SequenceTheorems, TLAPS

BoundMaps == UNION {[S -> Values \union {Dead}] : S \in SUBSET Nat}
ParamMaps == UNION {[S -> Values] : S \in SUBSET Nat}
Machines ==
  [conn : Nat, sql : Queries, status : MachineStates, at : Nat, bound : BoundMaps]

\* Of a resultset only its handle matters here.
HasHandle(r) == "m_handle" \in DOMAIN r /\ r.m_handle \in Nat

IsStatement(st) ==
  /\ DOMAIN st = {"alive", "m_cursorstate", "m_resultsets", "m_params", "m_temp_params"}
  /\ st.alive \in BOOLEAN
  /\ st.m_temp_params \in Seq(Values)
  /\ st.m_resultsets = <<>> \/ \E r : HasHandle(r) /\ st.m_resultsets = <<r>>

Holds(st) == IF st.m_resultsets = <<>> THEN NoHandle ELSE st.m_resultsets[1].m_handle

\* What is bound is what was given, a BLOB is one whose bytes were freed.
Frozen(v) == IF v \in Blobs THEN Dead ELSE v
RunWith(bound, a) ==
  /\ DOMAIN bound = DOMAIN a
  /\ \A n \in DOMAIN a : bound[n] = Frozen(a[n])

\* A statement, the machine it holds in library l, the values a its client
\* bound, and whether it was executed with them.
Holding(st, l) ==
  /\ IsStatement(st)
  /\ st.m_resultsets # <<>> => st.alive
  /\ Holds(st) \in 0 .. Len(l)
  /\ ~Finalized(l, Holds(st))

Answering(st, a) ==
  /\ a \in ParamMaps
  /\ DOMAIN st.m_params = DOMAIN a
  /\ \A n \in DOMAIN a :
       /\ st.m_params[n] \in DOMAIN st.m_temp_params
       /\ st.m_temp_params[st.m_params[n]] = a[n]

Ran(st, l, a, d) ==
  /\ d \in BOOLEAN
  /\ Holds(st) # NoHandle => DOMAIN l[Holds(st)].bound \subseteq DOMAIN a
  /\ d => /\ st.m_resultsets # <<>>
          /\ Holds(st) # NoHandle => RunWith(l[Holds(st)].bound, a)

Sound(st, l, a, d) == Holding(st, l) /\ Answering(st, a) /\ Ran(st, l, a, d)

\* Every machine that is not finalized is on the open connection and is held by
\* one statement.
Owned(sts, l, c) ==
  /\ \A h \in 1 .. Len(l) :
       l[h].status # "finalized" =>
         l[h].conn = c /\ c # NoConn /\ \E s \in Stmts : Holds(sts[s]) = h
  /\ \A s, t \in Stmts :
       Holds(sts[s]) = Holds(sts[t]) /\ Holds(sts[s]) # NoHandle => s = t

\* The object knows the only connection that is open.
Connected(d, cs) ==
  /\ d \in [alive : BOOLEAN, m_dbh : Nat, m_isConnected : BOOLEAN]
  /\ cs \in Seq(BOOLEAN)
  /\ d.m_dbh \in 0 .. Len(cs)
  /\ d.m_dbh # NoConn => cs[d.m_dbh]
  /\ \A c \in 1 .. Len(cs) : cs[c] => c = d.m_dbh
  /\ d.m_isConnected => d.m_dbh # NoConn

\* A statement has room for its resultset, and its connection.
Within(st, d) ==
  /\ st.m_resultsets = <<>> \/ 1 \in 1 .. MaxSets
  /\ st.alive => d.alive

OfEach(f) == f = [s \in Stmts |-> f[s]]

ProtocolInv ==
  /\ Connected(dbc, conns)
  /\ lib \in Seq(Machines)
  /\ OfEach(stmts) /\ OfEach(asked) /\ OfEach(done)
  /\ \A s \in Stmts : Sound(stmts[s], lib, asked[s], done[s])
  /\ Owned(stmts, lib, dbc.m_dbh)
  /\ \A s \in Stmts : Within(stmts[s], dbc)
  /\ Running

-----------------------------------------------------------------------------
(* The library                                                             *)

\* The machines k of a library are those of l but for machine h, which stays
\* the connection's and is not finalized.
Touched(l, k, h) ==
  /\ k \in Seq(Machines) /\ Len(k) = Len(l)
  /\ \A i \in 1 .. Len(l) : i # h => k[i] = l[i]
  /\ k[h].conn = l[h].conn
  /\ k[h].status # "finalized"

Put(l, h, m) == [l EXCEPT ![h] = m]

LEMMA Replaced ==
  ASSUME NEW l, l \in Seq(Machines), NEW h, h \in 1 .. Len(l), NEW m, m \in Machines,
         m.conn = l[h].conn, m.status # "finalized"
  PROVE  Touched(l, Put(l, h, m), h) /\ Put(l, h, m)[h] = m
BY DEF Touched, Put

LEMMA TouchedTwice ==
  ASSUME NEW l, NEW k, NEW j, NEW h, Touched(l, k, h), Touched(k, j, h)
  PROVE  Touched(l, j, h)
BY DEF Touched

Placed(m, st, a) == [m EXCEPT !.status = st, !.at = a]
WithBound(m, b)  == [m EXCEPT !.bound = b]

LEMMA Members ==
  ASSUME NEW m \in Machines
  PROVE  /\ m.status \in MachineStates /\ m.at \in Nat /\ m.bound \in BoundMaps
         /\ m.conn \in Nat
BY DEF Machines

LEMMA Placing ==
  ASSUME NEW m, m \in Machines, NEW st, st \in MachineStates, NEW a, a \in Nat
  PROVE  LET q == Placed(m, st, a)
         IN  q \in Machines /\ q.status = st /\ q.bound = m.bound /\ q.conn = m.conn
BY DEF Machines, Placed

LEMMA Rebinding ==
  ASSUME NEW m, m \in Machines, NEW b, b \in BoundMaps
  PROVE  LET q == WithBound(m, b)
         IN  q \in Machines /\ q.status = m.status /\ q.bound = b /\ q.conn = m.conn
BY DEF Machines, WithBound

LEMMA NothingBound == <<>> \in BoundMaps /\ <<>> \in ParamMaps /\ DOMAIN <<>> = {}
<1>1. /\ <<>> \in [{} -> Values \union {Dead}]
      /\ <<>> \in [{} -> Values]
  OBVIOUS
<1>. QED  BY <1>1 DEF BoundMaps, ParamMaps

LEMMA Rewinding ==
  ASSUME NEW l, l \in Seq(Machines), NEW h, h \in 1 .. Len(l)
  PROVE  Touched(l, Reset(l, h), h) /\ Reset(l, h)[h].bound = l[h].bound
<1> DEFINE m == Placed(l[h], "ready", 0)
<1>1. l[h] \in Machines
  OBVIOUS
<1>2. m \in Machines /\ m.status = "ready" /\ m.bound = l[h].bound /\ m.conn = l[h].conn
  BY <1>1, Placing DEF MachineStates
<1>3. Reset(l, h) = Put(l, h, m)
  BY <1>1 DEF Reset, Placed, Put
<1> DEFINE k == Reset(l, h)
<1> HIDE DEF m, k
<1>4. m.status # "finalized"
  BY <1>2
<1>5. Touched(l, k, h) /\ k[h] = m
  BY <1>2, <1>3, <1>4, Replaced DEF k
<1>. QED  BY <1>2, <1>5 DEF k

\* A finalized machine is in its place, and the others are as they were.
LEMMA Finalizing ==
  ASSUME NEW l, l \in Seq(Machines), NEW h, h \in 1 .. Len(l)
  PROVE  LET k == Finalize(l, h)
         IN  /\ k \in Seq(Machines) /\ Len(k) = Len(l)
             /\ k[h].status = "finalized"
             /\ \A i \in 1 .. Len(l) : i # h => k[i] = l[i]
<1> DEFINE e == Placed(l[h], "finalized", 0)
           m == WithBound(e, <<>>)
<1>1. l[h] \in Machines
  OBVIOUS
<1>2. e \in Machines /\ e.status = "finalized"
  BY <1>1, Placing DEF MachineStates
<1>3. Finalize(l, h) = [l EXCEPT ![h] = m]
  BY <1>1 DEF Finalize, Placed, WithBound
<1> HIDE DEF e
<1>4. m \in Machines /\ m.status = "finalized"
  BY <1>2, NothingBound, Rebinding
<1> HIDE DEF m
<1>. QED  BY <1>3, <1>4

LEMMA BindingAll ==
  ASSUME NEW l, l \in Seq(Machines), NEW h, h \in 1 .. Len(l),
         l[h].status # "finalized", NEW b, b \in BoundMaps
  PROVE  LET k == Put(l, h, WithBound(l[h], b))
         IN  Touched(l, k, h) /\ k[h].bound = b
<1> DEFINE m == WithBound(l[h], b)
<1>1. l[h] \in Machines
  OBVIOUS
<1>2. m \in Machines /\ m.status = l[h].status /\ m.bound = b /\ m.conn = l[h].conn
  BY <1>1, Rebinding
<1> HIDE DEF m
<1>. QED  BY <1>2, Replaced DEF m

LEMMA Binds ==
  ASSUME NEW l, l \in Seq(Machines), NEW h, h \in 1 .. Len(l),
         l[h].status # "finalized", NEW p, p \in ParamMaps
  PROVE  LET k == Bind(l, h, p)
         IN  /\ Touched(l, k, h)
             /\ DOMAIN k[h].bound = DOMAIN l[h].bound \union DOMAIN p
             /\ \A n \in DOMAIN p : k[h].bound[n] = p[n]
<1> DEFINE o == l[h].bound
           b == [n \in DOMAIN o \union DOMAIN p |-> IF n \in DOMAIN p THEN p[n] ELSE o[n]]
<1>1. l[h] \in Machines
  OBVIOUS
<1>2. PICK S \in SUBSET Nat : o \in [S -> Values \union {Dead}]
  BY <1>1, Members DEF BoundMaps
<1>3. PICK P \in SUBSET Nat : p \in [P -> Values]
  BY DEF ParamMaps
<1>4. b \in [S \union P -> Values \union {Dead}]
  BY <1>2, <1>3
<1>5. b \in BoundMaps
  BY <1>4 DEF BoundMaps
<1>6. Bind(l, h, p) = Put(l, h, WithBound(l[h], b))
  BY DEF Bind, Put, WithBound
<1>7. DOMAIN b = DOMAIN o \union DOMAIN p /\ \A n \in DOMAIN p : b[n] = p[n]
  OBVIOUS
<1> DEFINE k == Bind(l, h, p)
<1> HIDE DEF b, k
<1>8. Touched(l, k, h) /\ k[h].bound = b
  BY <1>5, <1>6, BindingAll DEF k
<1>. QED  BY <1>7, <1>8 DEF k

LEMMA Freeing ==
  ASSUME NEW l, l \in Seq(Machines), NEW h, h \in 1 .. Len(l), l[h].status # "finalized"
  PROVE  LET k == FreeBlobs(l, h)
         IN  /\ Touched(l, k, h)
             /\ DOMAIN k[h].bound = DOMAIN l[h].bound
             /\ \A n \in DOMAIN l[h].bound : k[h].bound[n] = Frozen(l[h].bound[n])
<1> DEFINE o == l[h].bound
           b == [n \in DOMAIN o |-> IF o[n] \in Blobs THEN Dead ELSE o[n]]
<1>1. l[h] \in Machines
  OBVIOUS
<1>2. PICK S \in SUBSET Nat : o \in [S -> Values \union {Dead}]
  BY <1>1, Members DEF BoundMaps
<1>3. b \in [S -> Values \union {Dead}]
  BY <1>2
<1>4. b \in BoundMaps
  BY <1>3 DEF BoundMaps
<1>5. FreeBlobs(l, h) = Put(l, h, WithBound(l[h], b))
  BY <1>1, Members DEF FreeBlobs, Put, WithBound
<1>6. DOMAIN b = DOMAIN o /\ \A n \in DOMAIN o : b[n] = Frozen(o[n])
  BY DEF Frozen
<1> DEFINE k == FreeBlobs(l, h)
<1> HIDE DEF b, k
<1>7. Touched(l, k, h) /\ k[h].bound = b
  BY <1>4, <1>5, BindingAll DEF k
<1>. QED  BY <1>6, <1>7 DEF k

\* A step keeps what is bound.
LEMMA Stepping ==
  ASSUME NEW l, l \in Seq(Machines), NEW h, h \in 1 .. Len(l),
         l[h].status # "finalized", NEW s \in Steps(l, h)
  PROVE  Touched(l, s.lib, h) /\ s.lib[h].bound = l[h].bound
<1>1. l[h] \in Machines /\ h # NoHandle
  BY DEF NoHandle
<1>2. PICK k \in {0, l[h].at} : s.lib = l \/ s \in Delivered(l, h, k)
  BY <1>1 DEF Steps
<1>3. k \in Nat
  BY <1>1, <1>2, Members
<1>4. CASE s.lib = l
  BY <1>4 DEF Touched
<1>5. CASE s \in Delivered(l, h, k)
  <2>1. PICK st \in {"row", "done", "failed"}, a \in {k, k + 1} :
          s.lib = Put(l, h, Placed(l[h], st, a))
    <3> DEFINE row    == [l EXCEPT ![h] = Placed(l[h], "row", k + 1)]
               ended  == [l EXCEPT ![h] = Placed(l[h], "done", k)]
               failed == [l EXCEPT ![h] = Placed(l[h], "failed", k)]
    <3>1. \/ s = [lib |-> row, code |-> "ROW"]
          \/ s = [lib |-> ended, code |-> "DONE"]
          \/ s = [lib |-> failed, code |-> "ERROR"]
      BY <1>1, <1>5 DEF Delivered, Placed
    <3>2. /\ row = Put(l, h, Placed(l[h], "row", k + 1))
          /\ ended = Put(l, h, Placed(l[h], "done", k))
          /\ failed = Put(l, h, Placed(l[h], "failed", k))
      BY DEF Put
    <3> HIDE DEF row, ended, failed
    <3>3. s.lib = row \/ s.lib = ended \/ s.lib = failed
      BY <3>1
    <3>. QED  BY <3>2, <3>3
  <2> DEFINE m == Placed(l[h], st, a)
  <2>2. a \in Nat /\ st \in MachineStates /\ st # "finalized"
    BY <1>3 DEF MachineStates
  <2>3. m \in Machines /\ m.status = st /\ m.bound = l[h].bound /\ m.conn = l[h].conn
    BY <1>1, <2>2, Placing
  <2> HIDE DEF m
  <2>. QED  BY <2>1, <2>2, <2>3, Replaced DEF m
<1>. QED  BY <1>2, <1>4, <1>5

-----------------------------------------------------------------------------
(* A resultset                                                             *)

\* Machine h of a prepared statement was used, or there is none.
Used(l, k, h) == IF h = NoHandle THEN k = l ELSE Touched(l, k, h)

\* A method keeps the handle and has used its machine.
Kept(r, l, q, k) == HasHandle(q) /\ q.m_handle = r.m_handle /\ Used(l, k, r.m_handle)

Usable(r, l) == HasHandle(r) /\ r.m_handle \in 0 .. Len(l) /\ ~Finalized(l, r.m_handle)

LEMMA KeptTwice ==
  ASSUME NEW r, NEW l, NEW q, NEW k, NEW p, NEW j, Kept(r, l, q, k), Kept(q, k, p, j)
  PROVE  Kept(r, l, p, j)
BY TouchedTwice DEF Kept, Used

LEMMA KeptUsable ==
  ASSUME NEW r, NEW l, l \in Seq(Machines), Usable(r, l), NEW q, NEW k, Kept(r, l, q, k)
  PROVE  k \in Seq(Machines) /\ Usable(q, k)
BY DEF Kept, Used, Usable, Touched, Finalized

LEMMA HandleKept ==
  ASSUME NEW r, HasHandle(r)
  PROVE  /\ HasHandle(Invalidated(r)) /\ Invalidated(r).m_handle = r.m_handle
         /\ \A s \in {"BAD", "PREPARED", "POSITIONED"} :
              HasHandle(SetState(r, s)) /\ SetState(r, s).m_handle = r.m_handle
BY DEF HasHandle, Invalidated, SetState

LEMMA OneOutcome ==
  ASSUME NEW q, NEW k, NEW x, NEW o \in Only(q, k, x)
  PROVE  o.rs = q /\ o.lib = k /\ o.ret = x
BY DEF Only, Outcome

LEMMA UnusedMachine ==
  ASSUME NEW r, NEW l, l \in Seq(Machines), Usable(r, l)
  PROVE  Kept(r, l, r, l)
BY DEF Usable, Kept, Used, Touched, Finalized, NoHandle

LEMMA RewindsMachine ==
  ASSUME NEW r, NEW l, l \in Seq(Machines), Usable(r, l), NEW o \in Rewound(r, l)
  PROVE  /\ Kept(r, l, o.rs, o.lib)
         /\ r.m_handle # NoHandle => o.lib[r.m_handle].bound = l[r.m_handle].bound
<1> DEFINE h == r.m_handle
<1>1. CASE ~IsOpen(r)
  <2>1. o.rs = r /\ o.lib = l
    BY <1>1, OneOutcome DEF Rewound
  <2>. QED  BY <2>1, UnusedMachine
<1>2. CASE IsOpen(r)
  <2>1. /\ o.rs = SetState(Invalidated(r), "PREPARED")
        /\ o.lib = IF h = NoHandle THEN l ELSE Reset(l, h)
    BY <1>2, OneOutcome DEF Rewound
  <2>2. HasHandle(o.rs) /\ o.rs.m_handle = h
    <3>1. HasHandle(Invalidated(r)) /\ Invalidated(r).m_handle = h
      BY HandleKept DEF Usable
    <3>. QED  BY <2>1, <3>1, HandleKept
  <2>3. h # NoHandle => Touched(l, o.lib, h) /\ o.lib[h].bound = l[h].bound
    BY <2>1, Rewinding DEF Usable, NoHandle
  <2>. QED  BY <2>1, <2>2, <2>3 DEF Kept, Used
<1>. QED  BY <1>1, <1>2

LEMMA BelowMap ==
  ASSUME NEW p, p \in ParamMaps, NEW n
  PROVE  Below(p, n) \in ParamMaps /\ DOMAIN Below(p, n) \subseteq DOMAIN p
<1>1. PICK S \in SUBSET Nat : p \in [S -> Values]
  BY DEF ParamMaps
<1>2. Below(p, n) \in [{j \in S : j < n} -> Values]
  BY <1>1 DEF Below
<1>. QED  BY <1>1, <1>2 DEF ParamMaps, Below

\* The loop over the parameters: all are bound, or it threw and some are not.
LEMMA BindsParameters ==
  ASSUME NEW r, NEW l, l \in Seq(Machines), Usable(r, l), NEW p, p \in ParamMaps,
         r.m_handle # NoHandle => DOMAIN l[r.m_handle].bound \subseteq DOMAIN p,
         NEW o \in Bindings(r, l, p)
  PROVE  /\ Kept(r, l, o.rs, o.lib) /\ o = Outcome(o.rs, o.lib, o.ret)
         /\ r.m_handle # NoHandle => DOMAIN o.lib[r.m_handle].bound \subseteq DOMAIN p
         /\ \/ o.ret = Throw
            \/ /\ o.ret = Ok
               /\ r.m_handle # NoHandle =>
                    /\ DOMAIN o.lib[r.m_handle].bound = DOMAIN p
                    /\ \A n \in DOMAIN p : o.lib[r.m_handle].bound[n] = p[n]
<1> DEFINE h == r.m_handle
<1>1. CASE h = NoHandle
  <2>1. /\ o.rs = r /\ o.lib = l /\ o.ret \in {Ok, Throw}
        /\ o = Outcome(o.rs, o.lib, o.ret)
    BY <1>1 DEF Bindings, Only, Outcome
  <2>. QED  BY <1>1, <2>1, UnusedMachine
<1>2. CASE h # NoHandle
  <2>1. h \in 1 .. Len(l) /\ l[h].status # "finalized"
    BY <1>2 DEF Usable, NoHandle, Finalized
  <2>2. \/ \E n \in DOMAIN p : o = Outcome(r, Bind(l, h, Below(p, n)), Throw)
        \/ o = Outcome(r, Bind(l, h, p), Ok)
    BY <1>2 DEF Bindings, Only
  <2>3. ASSUME NEW n \in DOMAIN p, o = Outcome(r, Bind(l, h, Below(p, n)), Throw)
        PROVE  /\ o.rs = r /\ Touched(l, o.lib, h) /\ o.ret = Throw
               /\ DOMAIN o.lib[h].bound \subseteq DOMAIN p
    <3>1. o.rs = r /\ o.lib = Bind(l, h, Below(p, n)) /\ o.ret = Throw
      BY <2>3 DEF Outcome
    <3>2. /\ Touched(l, o.lib, h)
          /\ DOMAIN o.lib[h].bound = DOMAIN l[h].bound \union DOMAIN Below(p, n)
      BY <2>1, <3>1, BelowMap, Binds
    <3>. QED  BY <1>2, <3>1, <3>2, BelowMap
  <2>4. ASSUME o = Outcome(r, Bind(l, h, p), Ok)
        PROVE  /\ o.rs = r /\ Touched(l, o.lib, h) /\ o.ret = Ok
               /\ DOMAIN o.lib[h].bound = DOMAIN p
               /\ \A n \in DOMAIN p : o.lib[h].bound[n] = p[n]
    <3>1. o.rs = r /\ o.lib = Bind(l, h, p) /\ o.ret = Ok
      BY <2>4 DEF Outcome
    <3>2. /\ Touched(l, o.lib, h)
          /\ DOMAIN o.lib[h].bound = DOMAIN l[h].bound \union DOMAIN p
          /\ \A n \in DOMAIN p : o.lib[h].bound[n] = p[n]
      BY <2>1, <3>1, Binds
    <3>. QED  BY <1>2, <3>1, <3>2
  <2>5. o = Outcome(o.rs, o.lib, o.ret)
    BY <2>2 DEF Outcome
  <2>. QED  BY <1>2, <2>2, <2>3, <2>4, <2>5 DEF Kept, Used, Usable
<1>. QED  BY <1>1, <1>2

LEMMA StartsMachine ==
  ASSUME NEW r, NEW l, l \in Seq(Machines), Usable(r, l), NEW o \in Started(r, l)
  PROVE  /\ Kept(r, l, o.rs, o.lib) /\ o.ret \in {Ok, Throw}
         /\ o = Outcome(o.rs, o.lib, o.ret)
         /\ r.m_handle # NoHandle => o.lib[r.m_handle].bound = l[r.m_handle].bound
<1> DEFINE h == r.m_handle
<1>1. PICK s \in Steps(l, h) :
        o = IF s.code = "ERROR"
              THEN Outcome([SetState(r, "BAD") EXCEPT !.m_last_row_status = s.code],
                           s.lib, Throw)
              ELSE Outcome([SetState(r, "POSITIONED") EXCEPT !.m_last_row_status = s.code,
                              !.m_current_tuple = 1, !.m_column_desc = 0 .. Width],
                           s.lib, Ok)
  BY DEF Started
<1>2. h # NoHandle => Touched(l, s.lib, h) /\ s.lib[h].bound = l[h].bound
  BY Stepping DEF Usable, Finalized, NoHandle
<1>3. h = NoHandle => s.lib = l
  BY DEF Steps
<1>4. /\ o.lib = s.lib /\ o.ret \in {Ok, Throw}
      /\ HasHandle(o.rs) /\ o.rs.m_handle = h
  <2>1. /\ HasHandle(SetState(r, "BAD")) /\ SetState(r, "BAD").m_handle = h
        /\ HasHandle(SetState(r, "POSITIONED")) /\ SetState(r, "POSITIONED").m_handle = h
    BY HandleKept DEF Usable
  <2>. QED  BY <1>1, <2>1 DEF Outcome, HasHandle
<1>5. o = Outcome(o.rs, o.lib, o.ret)
  BY <1>1 DEF Outcome
<1>. QED  BY <1>2, <1>3, <1>4, <1>5 DEF Kept, Used

LEMMA FreesValues ==
  ASSUME NEW d, d = Outcome(d.rs, d.lib, d.ret), d.lib \in Seq(Machines), Usable(d.rs, d.lib),
         NEW h, h = d.rs.m_handle
  PROVE  LET o == Returned(d)
         IN  /\ Kept(d.rs, d.lib, o.rs, o.lib) /\ o.ret = d.ret
             /\ h # NoHandle => RunWith(o.lib[h].bound, d.lib[h].bound)
<1> DEFINE o == Returned(d)
<1>1. CASE h = NoHandle
  <2>1. o = d
    BY <1>1 DEF Returned
  <2>. QED  BY <1>1, <2>1, UnusedMachine
<1>2. CASE h # NoHandle
  <2>1. o.rs = d.rs /\ o.lib = FreeBlobs(d.lib, h) /\ o.ret = d.ret
    BY <1>2 DEF Returned, Outcome
  <2>2. h \in 1 .. Len(d.lib) /\ d.lib[h].status # "finalized"
    BY <1>2 DEF Usable, NoHandle, Finalized
  <2> DEFINE k == FreeBlobs(d.lib, h)
  <2>3. /\ Touched(d.lib, k, h) /\ DOMAIN k[h].bound = DOMAIN d.lib[h].bound
        /\ \A n \in DOMAIN d.lib[h].bound : k[h].bound[n] = Frozen(d.lib[h].bound[n])
    BY <2>2, Freeing
  <2> HIDE DEF k
  <2>. QED  BY <1>2, <2>1, <2>3 DEF Kept, Used, Usable, k, RunWith
<1>. QED  BY <1>1, <1>2

\* execute() of a resultset: what is bound is what is given, or a part of it if
\* it throws.
LEMMA RsExecutes ==
  ASSUME NEW r, NEW l, l \in Seq(Machines), Usable(r, l), NEW p, p \in ParamMaps,
         r.m_handle # NoHandle => DOMAIN l[r.m_handle].bound \subseteq DOMAIN p,
         NEW o \in RsExecute(r, l, p)
  PROVE  /\ Kept(r, l, o.rs, o.lib) /\ o.ret \in {Ok, Throw}
         /\ r.m_handle # NoHandle =>
              /\ DOMAIN o.lib[r.m_handle].bound \subseteq DOMAIN p
              /\ o.ret = Ok => RunWith(o.lib[r.m_handle].bound, p)
<1> DEFINE h == r.m_handle
<1>1. CASE IsBad(r) \/ ~IsPrepared(r)
  <2>1. o.rs = r /\ o.lib = l /\ o.ret = Throw
    BY <1>1, OneOutcome DEF RsExecute
  <2>. QED  BY <2>1, UnusedMachine DEF Ok, Throw
<1>2. CASE ~IsBad(r) /\ IsPrepared(r)
  <2>1. PICK d : /\ o = Returned(d)
                 /\ d \in UNION {IF b.ret = Ok
                                   THEN Started(b.rs, b.lib) \union FreedRead(b.rs, b.lib)
                                   ELSE {b} :
                      b \in UNION {Bindings(q.rs, q.lib, p) : q \in Rewound(r, l)}}
    BY <1>2 DEF RsExecute, Usable
  <2>2. PICK b : /\ d \in IF b.ret = Ok
                            THEN Started(b.rs, b.lib) \union FreedRead(b.rs, b.lib)
                            ELSE {b}
                 /\ b \in UNION {Bindings(q.rs, q.lib, p) : q \in Rewound(r, l)}
    BY <2>1
  <2>3. PICK q \in Rewound(r, l) : b \in Bindings(q.rs, q.lib, p)
    BY <2>2
  <2>4. /\ Kept(r, l, q.rs, q.lib) /\ q.rs.m_handle = h
        /\ q.lib \in Seq(Machines) /\ Usable(q.rs, q.lib)
        /\ h # NoHandle => DOMAIN q.lib[h].bound \subseteq DOMAIN p
    BY RewindsMachine, KeptUsable DEF Kept
  <2>5. /\ Kept(q.rs, q.lib, b.rs, b.lib) /\ b = Outcome(b.rs, b.lib, b.ret)
        /\ h # NoHandle => DOMAIN b.lib[h].bound \subseteq DOMAIN p
        /\ \/ b.ret = Throw
           \/ /\ b.ret = Ok
              /\ h # NoHandle => /\ DOMAIN b.lib[h].bound = DOMAIN p
                                 /\ \A n \in DOMAIN p : b.lib[h].bound[n] = p[n]
    BY <2>3, <2>4, BindsParameters
  <2>6. b.rs.m_handle = h /\ b.lib \in Seq(Machines) /\ Usable(b.rs, b.lib)
    BY <2>4, <2>5, KeptUsable DEF Kept
  <2>7. \/ b.ret = Throw /\ d = b
        \/ b.ret = Ok /\ d \in Started(b.rs, b.lib)
    <3>1. b.ret = Ok => ~HasDead(b.lib, h)
      <4>1. PICK S \in SUBSET Nat : p \in [S -> Values]
        BY DEF ParamMaps
      <4>2. \A n \in DOMAIN p : p[n] # Dead
        BY <4>1, LibraryAssumption
      <4>3. Ok # Throw
        BY DEF Ok, Throw
      <4>. QED  BY <2>5, <4>2, <4>3 DEF HasDead
    <3>. QED  BY <2>2, <2>5, <2>6, <3>1 DEF FreedRead, Ok, Throw
  <2>8. /\ Kept(b.rs, b.lib, d.rs, d.lib) /\ d.ret \in {Ok, Throw}
        /\ d.ret = Ok => b.ret = Ok
        /\ h # NoHandle => d.lib[h].bound = b.lib[h].bound
    BY <2>6, <2>7, StartsMachine, UnusedMachine DEF Ok, Throw
  <2>9. d.rs.m_handle = h /\ d.lib \in Seq(Machines) /\ Usable(d.rs, d.lib)
    BY <2>6, <2>8, KeptUsable DEF Kept
  <2>10. d = Outcome(d.rs, d.lib, d.ret)
    BY <2>5, <2>7, StartsMachine, <2>6
  <2>11. /\ Kept(d.rs, d.lib, o.rs, o.lib) /\ o.ret = d.ret
         /\ h # NoHandle => RunWith(o.lib[h].bound, d.lib[h].bound)
    BY <2>1, <2>9, <2>10, FreesValues
  <2>12. Kept(r, l, o.rs, o.lib)
    BY <2>4, <2>5, <2>8, <2>11, KeptTwice
  <2>. QED  BY <2>5, <2>8, <2>11, <2>12 DEF RunWith, Ok, Throw
<1>. QED  BY <1>1, <1>2

\* Its destructor finalizes its machine.
LEMMA RsDestroys ==
  ASSUME NEW r, NEW l, l \in Seq(Machines), Usable(r, l), NEW o \in RsDestroy(r, l)
  PROVE  /\ o.ret = Ok
         /\ r.m_handle = NoHandle => o.lib = l
         /\ r.m_handle # NoHandle => o.lib = Finalize(l, r.m_handle)
<1> DEFINE q == [r EXCEPT !.blobbuf = [c \in Columns |-> "unset"]]
<1>1. q.m_handle = r.m_handle /\ o \in RsClose(q, l)
  BY DEF RsDestroy, Usable, HasHandle
<1> HIDE DEF q
<1>. QED  BY <1>1, OneOutcome DEF RsClose, Usable

\* Preparing a new resultset makes a machine or does not.
LEMMA RsPrepares ==
  ASSUME NEW l, l \in Seq(Machines), NEW c, c \in Nat, NEW on, on \in BOOLEAN,
         NEW sql, sql \in Queries, NEW o \in RsPrepare(ResultInit, l, c, on, sql)
  PROVE  /\ HasHandle(o.rs) /\ o.ret \in {Ok, Throw}
         /\ \/ o.rs.m_handle = NoHandle /\ o.lib = l
            \/ /\ on /\ o.rs.m_handle = Len(l) + 1
               /\ o.lib = Append(l, NewMachine(c, sql))
<1> DEFINE r == ResultInit
           prepared == [r EXCEPT !.m_cursorstate = r.m_cursorstate \union {"PREPARED"}]
<1>1. HasHandle(r) /\ r.m_handle = NoHandle /\ ~IsBad(r) /\ ~IsPrepared(r)
  BY DEF ResultInit, HasHandle, NoHandle, IsBad, IsPrepared, CLOSED
<1>2. CASE ~on
  <2>1. o.rs = r /\ o.lib = l /\ o.ret = Throw
    BY <1>2, OneOutcome DEF RsPrepare
  <2>. QED  BY <1>1, <2>1
<1>3. CASE on
  <2> HIDE DEF r
  <2>1. o \in Compiled(r, l, c, sql)
    BY <1>1, <1>3, OneOutcome DEF RsPrepare, r, Only, Outcome
  <2>2. HasHandle(prepared)
    BY <1>1 DEF HasHandle
  <2>3. \/ o = Outcome([r EXCEPT !.m_handle = NoHandle], l, Throw)
        \/ o = Outcome([prepared EXCEPT !.m_handle = NoHandle], l, Ok)
        \/ o = Outcome([prepared EXCEPT !.m_handle = Len(l) + 1],
                       Append(l, NewMachine(c, sql)), Ok)
    BY <2>1 DEF Compiled
  <2> HIDE DEF prepared
  <2>4. Len(l) + 1 \in Nat
    OBVIOUS
  <2>. QED  BY <1>1, <1>3, <2>2, <2>3, <2>4 DEF Outcome, HasHandle, NoHandle
<1>. QED  BY <1>2, <1>3

-----------------------------------------------------------------------------
(* The loops over the resultsets of a statement                            *)

\* The i-th resultset, after outcomes D of the ones before it.
ExecuteNext(st, i, D) ==
  UNION {IF d.ret # Ok THEN {d}
         ELSE {StmtOutcome([d.st EXCEPT !.m_resultsets[i] = o.rs], o.lib, o.ret) :
                 o \in RsExecute(d.st.m_resultsets[i], d.lib, Given(st))} : d \in D}
CloseNext(st, i, D) ==
  UNION {IF d.ret # Ok THEN {d}
         ELSE {StmtOutcome(st, o.lib, o.ret) :
                 o \in RsDestroy(st.m_resultsets[i], d.lib)} : d \in D}

\* The tables of what the first i of n resultsets give.
Executing(st, l, n, f) ==
  [i \in 0 .. n |-> IF i = 0 THEN {StmtOutcome(st, l, Ok)} ELSE ExecuteNext(st, i, f[i - 1])]
Closing(st, l, n, f) ==
  [i \in 0 .. n |-> IF i = 0 THEN {StmtOutcome(st, l, Ok)} ELSE CloseNext(st, i, f[i - 1])]

ExecutedUpTo(st, l, n) ==
  CHOOSE f : f =
    [i \in 0 .. n |->
       IF i = 0 THEN {StmtOutcome(st, l, Ok)}
       ELSE UNION {IF d.ret # Ok THEN {d}
                   ELSE {StmtOutcome([d.st EXCEPT !.m_resultsets[i] = o.rs], o.lib, o.ret) :
                           o \in RsExecute(d.st.m_resultsets[i], d.lib, Given(st))} :
                     d \in f[i - 1]}]
ClosedUpTo(st, l, n) ==
  CHOOSE f : f =
    [i \in 0 .. n |->
       IF i = 0 THEN {StmtOutcome(st, l, Ok)}
       ELSE UNION {IF d.ret # Ok THEN {d}
                   ELSE {StmtOutcome(st, o.lib, o.ret) :
                           o \in RsDestroy(st.m_resultsets[i], d.lib)} : d \in f[i - 1]}]

\* close() forgets what the statement had.
AllCleared(st, D) == {StmtOutcome(Cleared(st), o.lib, o.ret) : o \in D}

LEMMA Tables ==
  ASSUME NEW st, NEW l, NEW n
  PROVE  /\ (\E f : f = Executing(st, l, n, f)) =>
              ExecutedUpTo(st, l, n) = Executing(st, l, n, ExecutedUpTo(st, l, n))
         /\ (\E f : f = Closing(st, l, n, f)) =>
              ClosedUpTo(st, l, n) = Closing(st, l, n, ClosedUpTo(st, l, n))
<1>1. ASSUME NEW g, g = Executing(st, l, n, g)
      PROVE  ExecutedUpTo(st, l, n) = Executing(st, l, n, ExecutedUpTo(st, l, n))
  BY <1>1 DEF ExecutedUpTo, Executing, ExecuteNext
<1>2. ASSUME NEW g, g = Closing(st, l, n, g)
      PROVE  ClosedUpTo(st, l, n) = Closing(st, l, n, ClosedUpTo(st, l, n))
  BY <1>2 DEF ClosedUpTo, Closing, CloseNext
<1>. QED  BY <1>1, <1>2

LEMMA Loops ==
  ASSUME NEW st, NEW l, NEW n, n = Len(st.m_resultsets)
  PROVE  /\ n = 0 \/ ~DanglingParams(st) => StmtExecute(st, l) = ExecutedUpTo(st, l, n)[n]
         /\ StmtClose(st, l) = AllCleared(st, ClosedUpTo(st, l, n)[n])
<1>1. ASSUME n = 0 \/ ~DanglingParams(st)
      PROVE  StmtExecute(st, l) = ExecutedUpTo(st, l, n)[n]
  BY <1>1 DEF StmtExecute, ExecutedUpTo
<1>2. StmtClose(st, l) = AllCleared(st, ClosedUpTo(st, l, n)[n])
  BY DEF StmtClose, ClosedUpTo, AllCleared
<1>. QED  BY <1>1, <1>2

LEMMA OutcomeMembers ==
  ASSUME NEW st, NEW l, NEW x
  PROVE  LET o == StmtOutcome(st, l, x) IN o.st = st /\ o.lib = l /\ o.ret = x
BY DEF StmtOutcome

\* A statement without a resultset: there is nothing to do.
LEMMA NothingToDo ==
  ASSUME NEW st, NEW l, st.m_resultsets = <<>>
  PROVE  /\ StmtExecute(st, l) = {StmtOutcome(st, l, Ok)}
         /\ StmtClose(st, l) = {StmtOutcome(Cleared(st), l, Ok)}
<1> DEFINE z == StmtOutcome(st, l, Ok)
           w == [i \in 0 .. 0 |-> {z}]
<1>0. z.st = st /\ z.lib = l /\ z.ret = Ok
  BY OutcomeMembers
<1>1. w = Executing(st, l, 0, w) /\ w = Closing(st, l, 0, w)
  BY DEF Executing, Closing
<1>2. /\ ExecutedUpTo(st, l, 0) = Executing(st, l, 0, ExecutedUpTo(st, l, 0))
      /\ ClosedUpTo(st, l, 0) = Closing(st, l, 0, ClosedUpTo(st, l, 0))
  <2> HIDE DEF w
  <2>. QED  BY <1>1, Tables
<1> HIDE DEF z
<1>3. ExecutedUpTo(st, l, 0)[0] = {z} /\ ClosedUpTo(st, l, 0)[0] = {z}
  BY <1>2 DEF Executing, Closing, z
<1>4. Len(st.m_resultsets) = 0
  OBVIOUS
<1>5. StmtExecute(st, l) = {z}
  BY <1>3, <1>4, Loops
<1>6. StmtClose(st, l) = AllCleared(st, {z})
  BY <1>3, <1>4, Loops
<1>. QED  BY <1>0, <1>5, <1>6 DEF z, AllCleared

\* The first resultset of a statement is now r.
Succeeded(st, r) == [st EXCEPT !.m_resultsets[1] = r]

\* A statement with one resultset: the loops do it.
LEMMA OneToDo ==
  ASSUME NEW st, NEW l, NEW r, st.m_resultsets = <<r>>, ~DanglingParams(st)
  PROVE  /\ \A x \in StmtExecute(st, l) : \E o \in RsExecute(r, l, Given(st)) :
              x = StmtOutcome(Succeeded(st, o.rs), o.lib, o.ret)
         /\ \A x \in StmtClose(st, l) : \E o \in RsDestroy(r, l) :
              x = StmtOutcome(Cleared(st), o.lib, o.ret)
<1> DEFINE z == StmtOutcome(st, l, Ok)
           w == [i \in 0 .. 1 |-> IF i = 0 THEN {z} ELSE ExecuteNext(st, 1, {z})]
           v == [i \in 0 .. 1 |-> IF i = 0 THEN {z} ELSE CloseNext(st, 1, {z})]
<1>0. z.st = st /\ z.lib = l /\ z.ret = Ok
  BY OutcomeMembers
<1>1. Len(st.m_resultsets) = 1 /\ st.m_resultsets[1] = r
  OBVIOUS
<1>2. w = Executing(st, l, 1, w) /\ v = Closing(st, l, 1, v)
  BY DEF Executing, Closing
<1>3. /\ ExecutedUpTo(st, l, 1) = Executing(st, l, 1, ExecutedUpTo(st, l, 1))
      /\ ClosedUpTo(st, l, 1) = Closing(st, l, 1, ClosedUpTo(st, l, 1))
  <2> HIDE DEF w, v
  <2>. QED  BY <1>2, Tables
<1> HIDE DEF z
<1>4. /\ ExecutedUpTo(st, l, 1)[0] = {z} /\ ClosedUpTo(st, l, 1)[0] = {z}
  BY <1>3 DEF Executing, Closing, z
<1>5. /\ ExecutedUpTo(st, l, 1)[1] = ExecuteNext(st, 1, {z})
      /\ ClosedUpTo(st, l, 1)[1] = CloseNext(st, 1, {z})
  BY <1>3, <1>4 DEF Executing, Closing
<1>6. StmtExecute(st, l) = ExecuteNext(st, 1, {z})
  BY <1>1, <1>5, Loops
<1>7. StmtClose(st, l) = AllCleared(st, CloseNext(st, 1, {z}))
  BY <1>1, <1>5, Loops
<1>8. ASSUME NEW x \in ExecuteNext(st, 1, {z})
      PROVE  \E o \in RsExecute(r, l, Given(st)) :
               x = StmtOutcome(Succeeded(st, o.rs), o.lib, o.ret)
  BY <1>0, <1>1 DEF ExecuteNext, Succeeded
<1>9. ASSUME NEW x \in CloseNext(st, 1, {z})
      PROVE  \E o \in RsDestroy(r, l) : x = StmtOutcome(st, o.lib, o.ret)
  BY <1>0, <1>1 DEF CloseNext
<1>10. ASSUME NEW x \in AllCleared(st, CloseNext(st, 1, {z}))
       PROVE  \E o \in RsDestroy(r, l) : x = StmtOutcome(Cleared(st), o.lib, o.ret)
  <2>1. PICK y \in CloseNext(st, 1, {z}) : x = StmtOutcome(Cleared(st), y.lib, y.ret)
    BY <1>10 DEF AllCleared
  <2>2. PICK o \in RsDestroy(r, l) : y = StmtOutcome(st, o.lib, o.ret)
    BY <1>9
  <2>. QED  BY <2>1, <2>2, OutcomeMembers
<1>. QED  BY <1>6, <1>7, <1>8, <1>10

-----------------------------------------------------------------------------
(* The methods of a statement                                              *)

\* What a method that makes st into q does to the machines l, which become k:
\* those of others stay, and each that is alive afterwards is held by q.
Effect(st, l, q, k, c) ==
  /\ k \in Seq(Machines) /\ Len(l) <= Len(k)
  /\ \A i \in 1 .. Len(l) : i # Holds(st) => k[i] = l[i]
  /\ \A i \in 1 .. Len(k) :
       (i > Len(l) \/ i = Holds(st)) /\ k[i].status # "finalized" =>
         /\ i = Holds(q)
         /\ i > Len(l) => k[i].conn = c /\ c # NoConn
         /\ i <= Len(l) => k[i].conn = l[i].conn
  /\ Holds(q) = NoHandle \/ Holds(q) = Holds(st) \/ Holds(q) > Len(l)

\* A statement that keeps what it holds or lets go of nothing changes nothing.
LEMMA NoEffect ==
  ASSUME NEW l, l \in Seq(Machines), NEW st, Holds(st) \in 0 .. Len(l), NEW q,
         Holds(q) = Holds(st), NEW c
  PROVE  Effect(st, l, q, l, c)
BY DEF Effect

LEMMA HeldUsable ==
  ASSUME NEW st, NEW l, Holding(st, l), st.m_resultsets # <<>>
  PROVE  /\ st.m_resultsets = <<st.m_resultsets[1]>>
         /\ Usable(st.m_resultsets[1], l)
         /\ Holds(st) = st.m_resultsets[1].m_handle
<1>1. PICK r : HasHandle(r) /\ st.m_resultsets = <<r>>
  BY DEF Holding, IsStatement
<1>2. st.m_resultsets[1] = r
  BY <1>1
<1>3. Holds(st) = r.m_handle
  BY <1>2 DEF Holds
<1>. QED  BY <1>1, <1>2, <1>3 DEF Usable, Holding

LEMMA GivenAsAsked ==
  ASSUME NEW st, NEW a, Answering(st, a)
  PROVE  ~DanglingParams(st) /\ Given(st) = a /\ a \in ParamMaps
<1>1. PICK S \in SUBSET Nat : a \in [S -> Values]
  BY DEF Answering, ParamMaps
<1>. QED  BY <1>1 DEF Answering, DanglingParams, Given

\* A statement with resultset r and cursor state cs instead of what it has.
Having(st, r, cs) == [[st EXCEPT !.m_resultsets = <<r>>] EXCEPT !.m_cursorstate = cs]

LEMMA WithResultset ==
  ASSUME NEW st, IsStatement(st), NEW r, HasHandle(r), NEW cs
  PROVE  LET q == Having(st, r, cs)
         IN  /\ IsStatement(q) /\ q.m_resultsets = <<r>> /\ Holds(q) = r.m_handle
             /\ q.alive = st.alive /\ q.m_params = st.m_params
             /\ q.m_temp_params = st.m_temp_params
<1> DEFINE p == [st EXCEPT !.m_resultsets = <<r>>]
           q == [p EXCEPT !.m_cursorstate = cs]
<1>1. /\ DOMAIN p = DOMAIN st /\ p.m_resultsets = <<r>>
      /\ p.alive = st.alive /\ p.m_params = st.m_params
      /\ p.m_temp_params = st.m_temp_params
  BY DEF IsStatement
<1> HIDE DEF p
<1>2. /\ DOMAIN q = DOMAIN p /\ q.m_resultsets = <<r>>
      /\ q.alive = st.alive /\ q.m_params = st.m_params
      /\ q.m_temp_params = st.m_temp_params
  BY <1>1
<1>3. <<r>> # <<>> /\ <<r>>[1] = r
  OBVIOUS
<1> HIDE DEF q
<1>4. IsStatement(q)
  BY <1>1, <1>2 DEF IsStatement
<1>5. Holds(q) = r.m_handle
  BY <1>2, <1>3 DEF Holds
<1>6. q = Having(st, r, cs)
  BY DEF Having, q, p
<1>. QED  BY <1>1, <1>2, <1>4, <1>5, <1>6

\* prepare() of a statement without resultsets.
LEMMA StmtPrepares ==
  ASSUME NEW st, NEW l, l \in Seq(Machines), NEW a, NEW d, Sound(st, l, a, d),
         st.m_resultsets = <<>>, st.alive,
         Connected(dbc, conns), NEW sql \in Queries, NEW o \in StmtPrepare(st, l, sql)
  PROVE  /\ o.ret \in {Ok, Throw}
         /\ Sound(o.st, o.lib, a, FALSE)
         /\ Effect(st, l, o.st, o.lib, dbc.m_dbh)
<1>1. dbc.m_dbh \in Nat /\ dbc.m_isConnected \in BOOLEAN
  BY DEF Connected
<1>2. dbc.m_isConnected => dbc.m_dbh # NoConn
  BY DEF Connected
<1>3. PICK x \in RsPrepare(ResultInit, l, dbc.m_dbh, dbc.m_isConnected, sql) :
        o = StmtOutcome([[st EXCEPT !.m_resultsets = Append(@, x.rs)] EXCEPT !.m_cursorstate =
                            IF x.ret = Ok THEN Mask("PREPARED") ELSE @], x.lib, x.ret)
  BY <1>2 DEF StmtPrepare
<1>4. /\ HasHandle(x.rs) /\ x.ret \in {Ok, Throw}
      /\ \/ x.rs.m_handle = NoHandle /\ x.lib = l
         \/ /\ dbc.m_isConnected /\ x.rs.m_handle = Len(l) + 1
            /\ x.lib = Append(l, NewMachine(dbc.m_dbh, sql))
  BY <1>1, RsPrepares
<1>5. /\ IsStatement(st) /\ Append(st.m_resultsets, x.rs) = <<x.rs>>
      /\ Holds(st) = NoHandle
  BY DEF Sound, Holding, Holds
<1>6. PICK cs : o = StmtOutcome(Having(st, x.rs, cs), x.lib, x.ret)
  BY <1>3, <1>5 DEF Having
<1>7. /\ o.lib = x.lib /\ o.ret = x.ret
      /\ IsStatement(o.st) /\ o.st.m_resultsets = <<x.rs>> /\ Holds(o.st) = x.rs.m_handle
      /\ o.st.alive = st.alive /\ o.st.m_params = st.m_params
      /\ o.st.m_temp_params = st.m_temp_params
  <2>1. o.st = Having(st, x.rs, cs) /\ o.lib = x.lib /\ o.ret = x.ret
    BY <1>6, OutcomeMembers
  <2>2. HasHandle(x.rs) /\ IsStatement(st)
    BY <1>4, <1>5
  <2> DEFINE q == Having(st, x.rs, cs)
  <2>3. /\ IsStatement(q) /\ q.m_resultsets = <<x.rs>> /\ Holds(q) = x.rs.m_handle
        /\ q.alive = st.alive /\ q.m_params = st.m_params
        /\ q.m_temp_params = st.m_temp_params
    BY <2>2, WithResultset
  <2> HIDE DEF q
  <2>. QED  BY <2>1, <2>3 DEF q
<1>8. Answering(o.st, a)
  BY <1>7 DEF Sound, Answering
<1>9. CASE x.rs.m_handle = NoHandle /\ x.lib = l
  <2>1. Holding(o.st, o.lib)
    BY <1>7, <1>9 DEF Holding, NoHandle, Finalized
  <2>2. Ran(o.st, o.lib, a, FALSE)
    BY <1>7, <1>9 DEF Ran
  <2>3. Effect(st, l, o.st, o.lib, dbc.m_dbh)
    BY <1>5, <1>7, <1>9, NoEffect DEF NoHandle
  <2>. QED  BY <1>4, <1>7, <1>8, <2>1, <2>2, <2>3 DEF Sound
<1>10. CASE /\ dbc.m_isConnected /\ x.rs.m_handle = Len(l) + 1
            /\ x.lib = Append(l, NewMachine(dbc.m_dbh, sql))
  <2> DEFINE m == NewMachine(dbc.m_dbh, sql)
  <2>1. /\ m \in Machines /\ m.conn = dbc.m_dbh /\ m.status = "ready"
        /\ m.bound = <<>>
    BY <1>1, NothingBound DEF NewMachine, Machines, MachineStates
  <2> HIDE DEF m
  <2>2. /\ o.lib \in Seq(Machines) /\ Len(o.lib) = Len(l) + 1 /\ o.lib[Len(l) + 1] = m
        /\ \A i \in 1 .. Len(l) : o.lib[i] = l[i]
        /\ Holds(o.st) = Len(l) + 1 /\ Len(l) \in Nat
    BY <1>7, <1>10, <2>1 DEF m
  <2>3. Holding(o.st, o.lib)
    BY <1>7, <2>1, <2>2 DEF Holding, Finalized
  <2>4. Ran(o.st, o.lib, a, FALSE)
    BY <2>1, <2>2, NothingBound DEF Ran
  <2>5. Effect(st, l, o.st, o.lib, dbc.m_dbh)
    BY <1>2, <1>5, <1>10, <2>1, <2>2 DEF Effect, NoHandle
  <2>. QED  BY <1>4, <1>7, <1>8, <2>3, <2>4, <2>5 DEF Sound
<1>. QED  BY <1>4, <1>9, <1>10

\* execute() of a statement.
LEMMA StmtExecutes ==
  ASSUME NEW st, NEW l, l \in Seq(Machines), NEW a, NEW d, Sound(st, l, a, d),
         NEW o \in StmtExecute(st, l), NEW c
  PROVE  /\ o.ret \in {Ok, Throw}
         /\ Sound(o.st, o.lib, a, o.ret = Ok /\ st.m_resultsets # <<>>)
         /\ Effect(st, l, o.st, o.lib, c)
         /\ o.st.alive = st.alive
         /\ o.st.m_resultsets # <<>> => st.m_resultsets # <<>>
<1>1. CASE st.m_resultsets = <<>>
  <2>1. o.st = st /\ o.lib = l /\ o.ret = Ok
    BY <1>1, NothingToDo, OutcomeMembers
  <2>2. Ran(st, l, a, FALSE)
    BY DEF Sound, Ran
  <2>3. Effect(st, l, st, l, c)
    BY NoEffect DEF Sound, Holding
  <2>. QED  BY <1>1, <2>1, <2>2, <2>3 DEF Sound
<1>2. CASE st.m_resultsets # <<>>
  <2> DEFINE r == st.m_resultsets[1]
             h == r.m_handle
  <2>1. st.m_resultsets = <<r>> /\ Usable(r, l) /\ Holds(st) = h
    BY <1>2, HeldUsable DEF Sound
  <2>2. ~DanglingParams(st) /\ Given(st) = a /\ a \in ParamMaps
    BY GivenAsAsked DEF Sound
  <2>3. PICK x \in RsExecute(r, l, a) :
          o = StmtOutcome(Succeeded(st, x.rs), x.lib, x.ret)
    BY <2>1, <2>2, OneToDo
  <2> HIDE DEF r
  <2>4. h # NoHandle => DOMAIN l[h].bound \subseteq DOMAIN a
    BY <2>1 DEF Sound, Ran
  <2>5. /\ Kept(r, l, x.rs, x.lib) /\ x.ret \in {Ok, Throw}
        /\ h # NoHandle =>
             /\ DOMAIN x.lib[h].bound \subseteq DOMAIN a
             /\ x.ret = Ok => RunWith(x.lib[h].bound, a)
    BY <2>1, <2>2, <2>4, RsExecutes
  <2>6. HasHandle(x.rs) /\ x.rs.m_handle = h /\ Used(l, x.lib, h)
    BY <2>5 DEF Kept
  <2>7. IsStatement(st)
    BY DEF Sound, Holding
  <2>8. [st.m_resultsets EXCEPT ![1] = x.rs] = <<x.rs>>
    BY <2>1
  <2>9. /\ o.lib = x.lib /\ o.ret = x.ret
        /\ IsStatement(o.st) /\ o.st.m_resultsets = <<x.rs>> /\ Holds(o.st) = h
        /\ o.st.alive = st.alive /\ o.st.m_params = st.m_params
        /\ o.st.m_temp_params = st.m_temp_params
    <3>1. o.st = Succeeded(st, x.rs) /\ o.lib = x.lib /\ o.ret = x.ret
      BY <2>3, OutcomeMembers
    <3>2. Succeeded(st, x.rs) = Having(st, x.rs, st.m_cursorstate)
      BY <2>7, <2>8 DEF IsStatement, Succeeded, Having
    <3>. QED  BY <2>6, <2>7, <3>1, <3>2, WithResultset
  <2>10. Answering(o.st, a)
    BY <2>9 DEF Sound, Answering
  <2>11. x.lib \in Seq(Machines) /\ Usable(x.rs, x.lib)
    BY <2>1, <2>5, KeptUsable
  <2>12. Holding(o.st, o.lib)
    BY <1>2, <2>6, <2>9, <2>11 DEF Sound, Holding, Usable
  <2>13. Ran(o.st, o.lib, a, o.ret = Ok /\ st.m_resultsets # <<>>)
    BY <2>5, <2>9 DEF Ran
  <2>14. Effect(st, l, o.st, o.lib, c)
    <3>1. CASE h = NoHandle
      <4>1. o.lib = l
        BY <2>6, <2>9, <3>1 DEF Used
      <4>. QED  BY <2>1, <2>9, <4>1, NoEffect DEF Sound, Holding
    <3>2. CASE h # NoHandle
      <4>1. Touched(l, o.lib, h) /\ h \in 1 .. Len(l)
        BY <2>1, <2>6, <2>9, <3>2 DEF Used, Usable, NoHandle
      <4>. QED  BY <2>1, <2>9, <4>1 DEF Effect, Touched
    <3>. QED  BY <3>1, <3>2
  <2>. QED  BY <1>2, <2>5, <2>9, <2>10, <2>12, <2>13, <2>14 DEF Sound
<1>. QED  BY <1>1, <1>2

LEMMA ClearedStatement ==
  ASSUME NEW st, IsStatement(st), NEW l, l \in Seq(Machines), NEW b, b \in {st.alive, FALSE}
  PROVE  LET q == [Cleared(st) EXCEPT !.alive = b]
         IN  Sound(q, l, <<>>, FALSE) /\ Holds(q) = NoHandle /\ q.m_resultsets = <<>>
<1> DEFINE q == [Cleared(st) EXCEPT !.alive = b]
<1>1. /\ DOMAIN q = DOMAIN st /\ q.m_resultsets = <<>> /\ q.m_params = <<>>
      /\ q.m_temp_params = <<>> /\ q.alive = b
  BY DEF Cleared, IsStatement
<1> HIDE DEF q
<1>2. Holds(q) = NoHandle
  BY <1>1 DEF Holds
<1>3. Holding(q, l)
  <2>1. b \in BOOLEAN
    <3>1. st.alive \in BOOLEAN
      BY DEF IsStatement
    <3>. QED  BY <3>1
  <2>3. <<>> \in Seq(Values) /\ Len(l) \in Nat
    OBVIOUS
  <2>2. IsStatement(q)
    BY <1>1, <2>1, <2>3 DEF IsStatement
  <2>. QED  BY <1>1, <1>2, <2>2, <2>3 DEF Holding, Finalized, NoHandle
<1>4. Answering(q, <<>>) /\ Ran(q, l, <<>>, FALSE)
  BY <1>1, <1>2, NothingBound DEF Answering, Ran
<1>. QED  BY <1>1, <1>2, <1>3, <1>4 DEF Sound, q

\* close() of a statement.
LEMMA StmtCloses ==
  ASSUME NEW st, NEW l, l \in Seq(Machines), NEW a, NEW d, Sound(st, l, a, d),
         NEW o \in StmtClose(st, l), NEW c, NEW q, Holds(q) = NoHandle
  PROVE  o.ret = Ok /\ o.st = Cleared(st) /\ Effect(st, l, q, o.lib, c)
<1>1. CASE st.m_resultsets = <<>>
  <2>1. o.st = Cleared(st) /\ o.lib = l /\ o.ret = Ok
    BY <1>1, NothingToDo, OutcomeMembers
  <2>2. Holds(st) = NoHandle
    BY <1>1 DEF Holds
  <2>. QED  BY <2>1, <2>2, NoEffect DEF NoHandle
<1>2. CASE st.m_resultsets # <<>>
  <2> DEFINE r == st.m_resultsets[1]
             h == r.m_handle
  <2>1. st.m_resultsets = <<r>> /\ Usable(r, l) /\ Holds(st) = h
    BY <1>2, HeldUsable DEF Sound
  <2>2. ~DanglingParams(st)
    BY GivenAsAsked DEF Sound
  <2>3. PICK x \in RsDestroy(r, l) : o = StmtOutcome(Cleared(st), x.lib, x.ret)
    BY <2>1, <2>2, OneToDo
  <2> HIDE DEF r
  <2>4. o.st = Cleared(st) /\ o.lib = x.lib /\ o.ret = x.ret
    BY <2>3, OutcomeMembers
  <2>5. /\ x.ret = Ok
        /\ h = NoHandle => x.lib = l
        /\ h # NoHandle => x.lib = Finalize(l, h)
    BY <2>1, RsDestroys
  <2>6. CASE h = NoHandle
    BY <2>1, <2>4, <2>5, <2>6, NoEffect DEF NoHandle
  <2>7. CASE h # NoHandle
    <3>1. h \in 1 .. Len(l)
      BY <2>1, <2>7 DEF Usable, NoHandle
    <3> DEFINE k == Finalize(l, h)
    <3>2. /\ k \in Seq(Machines) /\ Len(k) = Len(l)
          /\ k[h].status = "finalized"
          /\ \A i \in 1 .. Len(l) : i # h => k[i] = l[i]
      BY <3>1, Finalizing
    <3>3. o.lib = k
      BY <2>4, <2>5, <2>7
    <3> HIDE DEF k
    <3>4. Effect(st, l, q, o.lib, c)
      BY <2>1, <3>1, <3>2, <3>3 DEF Effect
    <3>. QED  BY <2>4, <2>5, <3>4
  <2>. QED  BY <2>6, <2>7
<1>. QED  BY <1>1, <1>2

LEMMA BindsValue ==
  ASSUME NEW st, NEW l, NEW a, NEW d, Sound(st, l, a, d),
         NEW n \in Numbers, NEW v \in Values
  PROVE  LET q == Bound(st, n, v)
         IN  /\ Sound(q, l, [i \in DOMAIN a \union {n} |-> IF i = n THEN v ELSE a[i]], FALSE)
             /\ Holds(q) = Holds(st) /\ q.alive = st.alive
             /\ q.m_resultsets = st.m_resultsets
<1> DEFINE q == Bound(st, n, v)
           b == [i \in DOMAIN a \union {n} |-> IF i = n THEN v ELSE a[i]]
           m == [i \in DOMAIN st.m_params \union {n} |->
                   IF i = n THEN Len(st.m_temp_params) + 1 ELSE st.m_params[i]]
           t == Append(st.m_temp_params, v)
<1>1. IsStatement(st) /\ st.m_temp_params \in Seq(Values)
  BY DEF Sound, Holding, IsStatement
<1>2. /\ DOMAIN q = DOMAIN st /\ q.m_resultsets = st.m_resultsets /\ q.alive = st.alive
      /\ q.m_temp_params = t /\ q.m_params = m
  BY <1>1 DEF Bound, IsStatement
<1>3. /\ t \in Seq(Values) /\ Len(t) = Len(st.m_temp_params) + 1
      /\ t[Len(st.m_temp_params) + 1] = v
      /\ \A i \in DOMAIN st.m_temp_params : i \in DOMAIN t /\ t[i] = st.m_temp_params[i]
  BY <1>1
<1> HIDE DEF q, t
<1>4. IsStatement(q)
  BY <1>1, <1>2, <1>3 DEF IsStatement
<1>5. Holds(q) = Holds(st)
  BY <1>2 DEF Holds
<1>6. Holding(q, l)
  BY <1>2, <1>4, <1>5 DEF Sound, Holding
<1>7. b \in ParamMaps
  <2>1. PICK S \in SUBSET Nat : a \in [S -> Values]
    BY DEF Sound, Answering, ParamMaps
  <2>2. b \in [S \union {n} -> Values]
    BY <2>1
  <2>3. S \union {n} \in SUBSET Nat
    BY LibraryAssumption
  <2>. QED  BY <2>2, <2>3 DEF ParamMaps
<1>8. Answering(q, b)
  <2>1. DOMAIN m = DOMAIN b
    BY DEF Sound, Answering
  <2>2. ASSUME NEW i \in DOMAIN b
        PROVE  m[i] \in DOMAIN t /\ t[m[i]] = b[i]
    <3>1. CASE i = n
      <4>1. m[i] = Len(st.m_temp_params) + 1 /\ b[i] = v
        BY <3>1
      <4>2. Len(st.m_temp_params) + 1 \in DOMAIN t
        BY <1>1, <1>3
      <4>. QED  BY <1>3, <4>1, <4>2
    <3>2. CASE i # n
      <4>1. i \in DOMAIN a /\ b[i] = a[i]
        BY <3>2
      <4>2. /\ m[i] = st.m_params[i] /\ st.m_params[i] \in DOMAIN st.m_temp_params
            /\ st.m_temp_params[st.m_params[i]] = a[i]
        BY <3>2, <4>1 DEF Sound, Answering
      <4>. QED  BY <1>3, <4>1, <4>2
    <3>. QED  BY <3>1, <3>2
  <2>3. DOMAIN q.m_params = DOMAIN b /\ q.m_params = m /\ q.m_temp_params = t
    BY <1>2, <2>1
  <2> HIDE DEF m, b
  <2>. QED  BY <1>7, <2>2, <2>3 DEF Answering
<1>9. Ran(q, l, b, FALSE)
  <2>1. Holds(st) # NoHandle => DOMAIN l[Holds(st)].bound \subseteq DOMAIN a
    BY DEF Sound, Ran
  <2>2. DOMAIN a \subseteq DOMAIN b
    OBVIOUS
  <2> HIDE DEF b
  <2>. QED  BY <1>5, <2>1, <2>2 DEF Ran
<1>. QED  BY <1>2, <1>5, <1>6, <1>8, <1>9 DEF Sound, q

-----------------------------------------------------------------------------
(* One statement among the others                                          *)

LEMMA EffectTwice ==
  ASSUME NEW st, NEW l, l \in Seq(Machines), NEW q, NEW k, NEW p, NEW j, NEW c,
         Effect(st, l, q, k, c), Effect(q, k, p, j, c), Holding(q, k),
         Holds(p) \in Nat
  PROVE  Effect(st, l, p, j, c)
<1>0. Len(l) \in Nat /\ Len(k) \in Nat /\ Len(j) \in Nat
  BY DEF Effect
<1>1. ASSUME NEW i \in 1 .. Len(l), i # Holds(st)
      PROVE  j[i] = l[i]
  BY <1>0, <1>1 DEF Effect, NoHandle
<1>2. ASSUME NEW i \in 1 .. Len(j), i > Len(l) \/ i = Holds(st), j[i].status # "finalized"
      PROVE  /\ i = Holds(p)
             /\ i > Len(l) => j[i].conn = c /\ c # NoConn
             /\ i <= Len(l) => j[i].conn = l[i].conn
  <2>1. CASE i > Len(k)
    BY <1>0, <1>2, <2>1 DEF Effect
  <2>2. CASE i <= Len(k) /\ i # Holds(q)
    <3>1. j[i] = k[i]
      BY <1>0, <2>2 DEF Effect
    <3>. QED  BY <1>0, <1>2, <2>2, <3>1 DEF Effect
  <2>3. CASE i <= Len(k) /\ i = Holds(q)
    <3>1. k[i].status # "finalized"
      BY <2>3 DEF Holding, Finalized, NoHandle
    <3>2. /\ i > Len(l) => k[i].conn = c /\ c # NoConn
          /\ i <= Len(l) => k[i].conn = l[i].conn
      BY <1>0, <1>2, <2>3, <3>1 DEF Effect
    <3>3. i = Holds(p) /\ j[i].conn = k[i].conn
      BY <1>0, <1>2, <2>3 DEF Effect
    <3>. QED  BY <3>2, <3>3
  <2>. QED  BY <1>0, <2>1, <2>2, <2>3
<1>3. Holds(p) = NoHandle \/ Holds(p) = Holds(st) \/ Holds(p) > Len(l)
  BY <1>0 DEF Effect, Holding
<1>. QED  BY <1>0, <1>1, <1>2, <1>3 DEF Effect

\* A statement keeps what it has while another one works.
LEMMA OtherSound ==
  ASSUME NEW st, NEW l, l \in Seq(Machines), NEW q, NEW k, NEW c, Effect(st, l, q, k, c),
         NEW t, NEW a, NEW d, Sound(t, l, a, d),
         Holds(t) = Holds(st) => Holds(t) = NoHandle
  PROVE  Sound(t, k, a, d)
<1>1. Holds(t) \in 0 .. Len(l) /\ Len(l) <= Len(k) /\ Len(k) \in Nat
  BY DEF Sound, Holding, Effect
<1>2. Holds(t) # NoHandle => k[Holds(t)] = l[Holds(t)]
  BY <1>1 DEF Effect, NoHandle
<1>3. Holding(t, k)
  BY <1>1, <1>2 DEF Sound, Holding, Finalized
<1>4. Ran(t, k, a, d)
  BY <1>2 DEF Sound, Ran
<1>. QED  BY <1>3, <1>4 DEF Sound

LEMMA Handing ==
  ASSUME NEW sts, DOMAIN sts = Stmts, NEW l, l \in Seq(Machines), NEW c, Owned(sts, l, c),
         \A t \in Stmts : Holding(sts[t], l),
         NEW s \in Stmts, NEW q, NEW k, Effect(sts[s], l, q, k, c), Holding(q, k)
  PROVE  Owned([sts EXCEPT ![s] = q], k, c)
<1> DEFINE us == [sts EXCEPT ![s] = q]
<1>1. us[s] = q /\ \A t \in Stmts : t # s => us[t] = sts[t]
  OBVIOUS
<1> HIDE DEF us
<1>2. Len(l) \in Nat /\ Len(k) \in Nat /\ Len(l) <= Len(k)
  BY DEF Effect
<1>3. ASSUME NEW h \in 1 .. Len(k), k[h].status # "finalized"
      PROVE  k[h].conn = c /\ c # NoConn /\ \E t \in Stmts : Holds(us[t]) = h
  <2>1. CASE h <= Len(l) /\ h # Holds(sts[s])
    <3>1. k[h] = l[h]
      BY <1>2, <2>1 DEF Effect
    <3>2. PICK t \in Stmts : Holds(sts[t]) = h /\ l[h].conn = c /\ c # NoConn
      BY <1>2, <1>3, <2>1, <3>1 DEF Owned
    <3>3. t # s
      BY <2>1, <3>2
    <3>. QED  BY <1>1, <3>1, <3>2, <3>3
  <2>2. CASE h <= Len(l) /\ h = Holds(sts[s])
    <3>1. h = Holds(q) /\ k[h].conn = l[h].conn
      BY <1>2, <1>3, <2>2 DEF Effect
    <3>2. l[h].status # "finalized"
      BY <2>2 DEF Holding, Finalized, NoHandle
    <3>3. l[h].conn = c /\ c # NoConn
      BY <1>2, <2>2, <3>2 DEF Owned
    <3>. QED  BY <1>1, <3>1, <3>3
  <2>3. CASE h > Len(l)
    BY <1>1, <1>2, <1>3, <2>3 DEF Effect
  <2>. QED  BY <1>2, <2>1, <2>2, <2>3
<1>4. ASSUME NEW t \in Stmts, t # s, Holds(us[t]) = Holds(us[s]), Holds(us[s]) # NoHandle
      PROVE  FALSE
  <2>1. Holds(sts[t]) = Holds(q) /\ Holds(sts[t]) \in 0 .. Len(l)
    BY <1>1, <1>4 DEF Holding
  <2>2. Holds(q) = Holds(sts[s])
    BY <1>1, <1>2, <1>4, <2>1 DEF Effect
  <2>. QED  BY <1>1, <1>4, <2>1, <2>2 DEF Owned
<1>5. ASSUME NEW t \in Stmts, NEW u \in Stmts, Holds(us[t]) = Holds(us[u]),
             Holds(us[t]) # NoHandle
      PROVE  t = u
  <2>1. CASE t = s \/ u = s
    BY <1>4, <1>5, <2>1
  <2>2. CASE t # s /\ u # s
    BY <1>1, <1>5, <2>2 DEF Owned
  <2>. QED  BY <2>1, <2>2
<1>. QED  BY <1>3, <1>5 DEF Owned, us

-----------------------------------------------------------------------------
(* directCmd()                                                             *)

LEMMA NewStatement ==
  ASSUME NEW l, l \in Seq(Machines)
  PROVE  /\ Sound(NewStmt, l, <<>>, FALSE) /\ Holds(NewStmt) = NoHandle
         /\ NewStmt.m_resultsets = <<>> /\ NewStmt.alive
<1>1. /\ DOMAIN NewStmt =
           {"alive", "m_cursorstate", "m_resultsets", "m_params", "m_temp_params"}
      /\ NewStmt.m_resultsets = <<>> /\ NewStmt.m_params = <<>>
      /\ NewStmt.m_temp_params = <<>> /\ NewStmt.alive = TRUE
  BY DEF NewStmt
<1>2. Holds(NewStmt) = NoHandle
  BY <1>1 DEF Holds
<1>3. <<>> \in Seq(Values) /\ Len(l) \in Nat
  OBVIOUS
<1>4. Holding(NewStmt, l)
  <2>1. IsStatement(NewStmt)
    BY <1>1, <1>3 DEF IsStatement
  <2>. QED  BY <1>1, <1>2, <1>3, <2>1 DEF Holding, Finalized, NoHandle
<1>5. Answering(NewStmt, <<>>) /\ Ran(NewStmt, l, <<>>, FALSE)
  BY <1>1, <1>2, NothingBound DEF Answering, Ran
<1>. QED  BY <1>1, <1>2, <1>4, <1>5 DEF Sound

\* A command leaves the machines there were, and none of its own.
LEMMA CommandsRun ==
  ASSUME lib \in Seq(Machines), Connected(dbc, conns), NEW sql \in Queries,
         NEW o \in Commanded(sql)
  PROVE  /\ o.ret \in {Ok, Throw}
         /\ Effect(NewStmt, lib, NewStmt, o.lib, dbc.m_dbh)
<1> DEFINE n == NewStmt
           b == dbc.m_dbh
<1>1. /\ Sound(n, lib, <<>>, FALSE) /\ Holds(n) = NoHandle
      /\ n.m_resultsets = <<>> /\ n.alive
  BY NewStatement
<1>2. PICK p \in StmtPrepare(n, lib, sql) :
        o \in UNION {{StmtOutcome(c.st, c.lib, IF c.ret = Ok THEN e.ret ELSE c.ret) :
                        c \in StmtClose(e.st, e.lib)} :
                       e \in IF p.ret = Ok THEN StmtExecute(p.st, p.lib) ELSE {p}}
  BY DEF Commanded
<1>3. PICK e \in IF p.ret = Ok THEN StmtExecute(p.st, p.lib) ELSE {p} :
        o \in {StmtOutcome(c.st, c.lib, IF c.ret = Ok THEN e.ret ELSE c.ret) :
                 c \in StmtClose(e.st, e.lib)}
  BY <1>2
<1>4. PICK c \in StmtClose(e.st, e.lib) :
        o = StmtOutcome(c.st, c.lib, IF c.ret = Ok THEN e.ret ELSE c.ret)
  BY <1>3
<1> HIDE DEF n
<1>5. /\ p.ret \in {Ok, Throw} /\ Sound(p.st, p.lib, <<>>, FALSE)
      /\ Effect(n, lib, p.st, p.lib, b)
  BY <1>1, <1>2, StmtPrepares
<1>6. p.lib \in Seq(Machines)
  BY <1>5 DEF Effect
<1>7. /\ e.ret \in {Ok, Throw} /\ \E d : Sound(e.st, e.lib, <<>>, d)
      /\ Effect(p.st, p.lib, e.st, e.lib, b)
  <2>1. CASE p.ret = Ok
    <3>1. e \in StmtExecute(p.st, p.lib)
      BY <1>3, <2>1
    <3>. QED  BY <1>5, <1>6, <3>1, StmtExecutes
  <2>2. CASE p.ret # Ok
    <3>1. e = p
      BY <1>3, <2>2
    <3>. QED  BY <1>5, <1>6, <3>1, NoEffect DEF Sound, Holding
  <2>. QED  BY <2>1, <2>2
<1>8. e.lib \in Seq(Machines) /\ Holding(p.st, p.lib) /\ Holding(e.st, e.lib)
      /\ Holds(e.st) \in Nat /\ Holds(n) \in Nat
  BY <1>1, <1>5, <1>7 DEF Effect, Sound, Holding, NoHandle
<1>9. c.ret = Ok /\ Effect(e.st, e.lib, n, c.lib, b)
  <2>1. PICK d : Sound(e.st, e.lib, <<>>, d)
    BY <1>7
  <2>. QED  BY <1>1, <1>4, <1>8, <2>1, StmtCloses
<1>10. Effect(n, lib, e.st, e.lib, b)
  BY <1>5, <1>6, <1>7, <1>8, EffectTwice
<1>11. Effect(n, lib, n, c.lib, b)
  BY <1>8, <1>9, <1>10, EffectTwice
<1>12. o.lib = c.lib /\ o.ret = e.ret
  BY <1>4, <1>9, OutcomeMembers
<1>. QED  BY <1>7, <1>11, <1>12 DEF n

-----------------------------------------------------------------------------
(* The steps                                                               *)

LEMMA Answers ==
  /\ GoesOn(Ok) /\ GoesOn(Throw) /\ GoesOn(None)
  /\ Ok # Throw
BY DEF GoesOn, Ok, Throw, None, Abort, Undefined

\* Statement s becomes q and the library k, and nothing else changes.
LEMMA OneChanged ==
  ASSUME ProtocolInv, NEW s \in Stmts, NEW q, NEW k, NEW a, NEW d,
         Sound(q, k, a, d), Effect(stmts[s], lib, q, k, dbc.m_dbh),
         Within(q, dbc),
         stmts' = [stmts EXCEPT ![s] = q], lib' = k, GoesOn(ret'),
         asked' = [asked EXCEPT ![s] = a], done' = [done EXCEPT ![s] = d],
         UNCHANGED <<dbc, conns>>
  PROVE  ProtocolInv'
<1>0. OfEach(stmts) /\ OfEach(asked) /\ OfEach(done)
  BY DEF ProtocolInv
<1>1. /\ DOMAIN stmts = Stmts /\ DOMAIN asked = Stmts /\ DOMAIN done = Stmts
  BY <1>0 DEF OfEach
<1>11. /\ lib \in Seq(Machines) /\ Owned(stmts, lib, dbc.m_dbh)
       /\ \A t \in Stmts : Sound(stmts[t], lib, asked[t], done[t])
  BY DEF ProtocolInv
<1>2. /\ stmts'[s] = q /\ asked'[s] = a /\ done'[s] = d
      /\ \A t \in Stmts : t # s => /\ stmts'[t] = stmts[t] /\ asked'[t] = asked[t]
                                   /\ done'[t] = done[t]
      /\ OfEach(stmts') /\ OfEach(asked') /\ OfEach(done')
  BY <1>1 DEF OfEach
<1>3. k \in Seq(Machines)
  BY DEF Effect
<1>4. ASSUME NEW t \in Stmts
      PROVE  Sound(stmts'[t], lib', asked'[t], done'[t])
  <2>1. CASE t = s
    BY <1>2, <2>1
  <2>2. CASE t # s
    <3>1. Holds(stmts[t]) = Holds(stmts[s]) => Holds(stmts[t]) = NoHandle
      BY <1>11, <2>2 DEF Owned
    <3>2. Sound(stmts[t], lib, asked[t], done[t])
      BY <1>11
    <3>3. Sound(stmts[t], k, asked[t], done[t])
      BY <1>11, <3>1, <3>2, OtherSound
    <3>. QED  BY <1>2, <2>2, <3>3
  <2>. QED  BY <2>1, <2>2
<1>5. Owned(stmts', lib', dbc'.m_dbh)
  <2>1. \A t \in Stmts : Holding(stmts[t], lib)
    BY <1>11 DEF Sound
  <2>2. Holding(q, k)
    BY DEF Sound
  <2>3. Owned([stmts EXCEPT ![s] = q], k, dbc.m_dbh)
    BY <1>1, <1>11, <2>1, <2>2, Handing
  <2>. QED  BY <2>3
<1>6. \A t \in Stmts : Within(stmts'[t], dbc')
  <2>1. \A t \in Stmts : Within(stmts[t], dbc)
    BY DEF ProtocolInv
  <2>2. dbc' = dbc
    OBVIOUS
  <2>. QED  BY <1>2, <2>1, <2>2
<1>7. Connected(dbc, conns)'
  BY DEF ProtocolInv, Connected
<1>. QED  BY <1>2, <1>3, <1>4, <1>5, <1>6, <1>7 DEF ProtocolInv, Running

\* No statement changes.
LEMMA NoneChanged ==
  ASSUME ProtocolInv, UNCHANGED <<stmts, asked, done>>, Connected(dbc', conns'),
         lib' \in Seq(Machines), Owned(stmts, lib', dbc'.m_dbh),
         \A t \in Stmts : Sound(stmts[t], lib', asked[t], done[t]),
         dbc'.alive = dbc.alive \/ \A t \in Stmts : ~stmts[t].alive, GoesOn(ret')
  PROVE  ProtocolInv'
<1>1. OfEach(stmts) /\ OfEach(asked) /\ OfEach(done)
  BY DEF ProtocolInv
<1>2. ASSUME NEW t \in Stmts
      PROVE  Within(stmts[t], dbc')
  <2>1. Within(stmts[t], dbc)
    BY DEF ProtocolInv
  <2>2. stmts[t].m_resultsets = <<>> \/ 1 \in 1 .. MaxSets
    BY <2>1 DEF Within
  <2>3. stmts[t].alive => dbc'.alive
    BY <2>1 DEF Within
  <2>. QED  BY <2>2, <2>3 DEF Within
<1>3. /\ OfEach(stmts') /\ OfEach(asked') /\ OfEach(done')
      /\ \A t \in Stmts : Within(stmts'[t], dbc')
      /\ \A t \in Stmts : Sound(stmts'[t], lib', asked'[t], done'[t])
      /\ Owned(stmts', lib', dbc'.m_dbh)
  BY <1>1, <1>2
<1>. QED  BY <1>3 DEF ProtocolInv, Running

LEMMA StepConnects ==
  ASSUME ProtocolInv, dbc.m_dbh = NoConn, connect
  PROVE  ProtocolInv'
<1>1. Connected(dbc, conns) /\ Owned(stmts, lib, NoConn)
  BY DEF ProtocolInv
<1>2. \A h \in 1 .. Len(lib) : lib[h].status = "finalized"
  BY <1>1 DEF Owned
<1>3. Owned(stmts, lib, dbc'.m_dbh)
  BY <1>1, <1>2 DEF Owned
<1>4. /\ conns \in Seq(BOOLEAN) /\ Len(conns) \in Nat
      /\ \A c \in 1 .. Len(conns) : conns[c] = FALSE
      /\ dbc \in [alive : BOOLEAN, m_dbh : Nat, m_isConnected : BOOLEAN]
      /\ dbc.m_isConnected = FALSE
  <2>1. ASSUME NEW c \in 1 .. Len(conns)
        PROVE  conns[c] = FALSE
    <3>1. conns[c] => c = 0
      BY <1>1 DEF Connected, NoConn
    <3>2. conns[c] \in BOOLEAN
      BY <1>1 DEF Connected
    <3>. QED  BY <3>1, <3>2
  <2>2. dbc.m_isConnected \in BOOLEAN /\ ~dbc.m_isConnected
    BY <1>1 DEF Connected
  <2>3. dbc.m_isConnected = FALSE
    BY <2>2
  <2>4. /\ conns \in Seq(BOOLEAN)
        /\ dbc \in [alive : BOOLEAN, m_dbh : Nat, m_isConnected : BOOLEAN]
    BY <1>1 DEF Connected
  <2>5. Len(conns) \in Nat
    BY <2>4
  <2>. QED  BY <2>1, <2>3, <2>4, <2>5
<1>5. ASSUME NEW r \in {Ok, Throw}, Opened(r)
      PROVE  Connected(dbc, conns)' /\ dbc'.alive = dbc.alive /\ GoesOn(ret')
  <2>1. /\ conns' = Append(conns, TRUE) /\ ret' = r
        /\ dbc' = [dbc EXCEPT !.m_dbh = Len(conns) + 1,
                              !.m_isConnected = dbc.m_isConnected \/ r = Ok]
    BY <1>5 DEF Opened, Answer
  <2>2. /\ dbc' \in [alive : BOOLEAN, m_dbh : Nat, m_isConnected : BOOLEAN]
        /\ dbc'.m_dbh = Len(conns) + 1 /\ dbc'.alive = dbc.alive
    <3> DEFINE e == [dbc EXCEPT !.m_dbh = Len(conns) + 1]
    <3>1. /\ e \in [alive : BOOLEAN, m_dbh : Nat, m_isConnected : BOOLEAN]
          /\ e.m_dbh = Len(conns) + 1 /\ e.alive = dbc.alive
      BY <1>4
    <3>2. dbc' = [e EXCEPT !.m_isConnected = dbc.m_isConnected \/ r = Ok]
      BY <1>4, <2>1
    <3>3. (dbc.m_isConnected \/ r = Ok) \in BOOLEAN
      OBVIOUS
    <3> HIDE DEF e
    <3>. QED  BY <3>1, <3>2, <3>3
  <2>3. /\ conns' \in Seq(BOOLEAN) /\ Len(conns') = Len(conns) + 1
        /\ conns'[Len(conns) + 1] = TRUE
        /\ \A c \in 1 .. Len(conns) : conns'[c] = conns[c]
    BY <1>4, <2>1
  <2>4. \A c \in 1 .. Len(conns') : conns'[c] => c = dbc'.m_dbh
    BY <1>4, <2>2, <2>3
  <2>5. dbc'.m_dbh \in 0 .. Len(conns') /\ conns'[dbc'.m_dbh] /\ dbc'.m_dbh # NoConn
    BY <1>4, <2>2, <2>3 DEF NoConn
  <2>6. GoesOn(ret')
    BY <2>1, Answers
  <2>. QED  BY <2>2, <2>3, <2>4, <2>5, <2>6 DEF Connected
<1>6. ASSUME dbc' = [dbc EXCEPT !.m_dbh = NoConn], ret' = Throw, UNCHANGED conns
      PROVE  Connected(dbc, conns)' /\ dbc'.alive = dbc.alive /\ GoesOn(ret')
  <2>1. dbc' = dbc
    BY <1>4, <1>6
  <2>. QED  BY <1>1, <1>6, <2>1, Answers DEF Connected
<1>7. Connected(dbc, conns)' /\ dbc'.alive = dbc.alive /\ GoesOn(ret')
  BY <1>5, <1>6 DEF connect, Answer
<1>8. UNCHANGED <<lib, stmts, asked, done>>
  BY DEF connect
<1>9. /\ lib \in Seq(Machines)
      /\ \A t \in Stmts : Sound(stmts[t], lib, asked[t], done[t])
  BY DEF ProtocolInv
<1>. QED  BY <1>3, <1>7, <1>8, <1>9, NoneChanged

\* What the connection releases is its own, and nobody uses it.
LEMMA Releases ==
  ASSUME ProtocolInv
  PROVE  /\ Connected(Release.dbc, Release.conns) /\ Release.dbc.alive = dbc.alive
         /\ Owned(stmts, lib, Release.dbc.m_dbh)
         /\ (Release.ret = Ok \/ (Release.ret = Throw /\ Busy))
<1>1. /\ Connected(dbc, conns) /\ Owned(stmts, lib, dbc.m_dbh) /\ lib \in Seq(Machines)
      /\ dbc \in [alive : BOOLEAN, m_dbh : Nat, m_isConnected : BOOLEAN]
  BY DEF ProtocolInv, Connected
<1>2. CASE dbc.m_dbh = NoConn \/ Busy
  <2>1. Release.dbc = dbc /\ Release.conns = conns
    BY <1>2 DEF Release
  <2>2. (Release.ret = Ok \/ (Release.ret = Throw /\ Busy))
    BY <1>2 DEF Release
  <2>. QED  BY <1>1, <2>1, <2>2
<1>3. CASE dbc.m_dbh # NoConn /\ ~Busy
  <2>1. /\ Release.dbc = Disconnected /\ Release.ret = Ok
        /\ Release.conns = [conns EXCEPT ![dbc.m_dbh] = FALSE]
    BY <1>3 DEF Release
  <2>2. /\ Disconnected \in [alive : BOOLEAN, m_dbh : Nat, m_isConnected : BOOLEAN]
        /\ Disconnected.m_dbh = NoConn /\ Disconnected.m_isConnected = FALSE
        /\ Disconnected.alive = dbc.alive
    BY <1>1 DEF Disconnected, NoConn
  <2> DEFINE cs == [conns EXCEPT ![dbc.m_dbh] = FALSE]
  <2>3. cs \in Seq(BOOLEAN) /\ \A c \in 1 .. Len(cs) : cs[c] = FALSE
    <3>1. /\ conns \in Seq(BOOLEAN) /\ \A c \in 1 .. Len(conns) : conns[c] => c = dbc.m_dbh
      BY <1>1 DEF Connected
    <3>2. cs \in Seq(BOOLEAN) /\ Len(cs) = Len(conns)
      <4>1. dbc.m_dbh \in 1 .. Len(conns)
        BY <1>1, <1>3 DEF Connected, NoConn
      <4>. QED  BY <3>1, <4>1
    <3>3. ASSUME NEW c \in 1 .. Len(conns)
          PROVE  cs[c] = FALSE
      <4>1. conns[c] \in BOOLEAN
        BY <3>1
      <4>2. CASE c = dbc.m_dbh
        BY <3>1, <4>2
      <4>3. CASE c # dbc.m_dbh
        <5>1. cs[c] = conns[c]
          BY <3>1, <4>3
        <5>. QED  BY <3>1, <4>1, <4>3, <5>1
      <4>. QED  BY <4>2, <4>3
    <3>. QED  BY <3>2, <3>3
  <2> HIDE DEF cs
  <2>4. Connected(Disconnected, cs)
    BY <2>2, <2>3 DEF Connected, NoConn
  <2>5. ASSUME NEW h \in 1 .. Len(lib), lib[h].status # "finalized"
        PROVE  FALSE
    <3>1. lib[h].conn = dbc.m_dbh
      BY <1>1, <2>5 DEF Owned
    <3>2. h \in LiveHandles(lib)
      BY <1>1, <2>5 DEF LiveHandles, Finalized
    <3>. QED  BY <1>3, <3>1, <3>2 DEF Busy
  <2>6. Owned(stmts, lib, Disconnected.m_dbh)
    BY <1>1, <2>5 DEF Owned
  <2>. QED  BY <2>1, <2>2, <2>4, <2>6 DEF cs
<1>. QED  BY <1>2, <1>3

LEMMA StepDisconnects ==
  ASSUME ProtocolInv, disconnect
  PROVE  ProtocolInv'
<1>1. /\ dbc' = Release.dbc /\ conns' = Release.conns /\ ret' = Release.ret
      /\ UNCHANGED <<lib, stmts, asked, done>>
  BY DEF disconnect, Answer
<1>2. /\ Connected(dbc', conns') /\ dbc'.alive = dbc.alive
      /\ Owned(stmts, lib, dbc'.m_dbh) /\ GoesOn(ret')
  BY <1>1, Releases, Answers
<1>3. /\ lib \in Seq(Machines)
      /\ \A t \in Stmts : Sound(stmts[t], lib, asked[t], done[t])
  BY DEF ProtocolInv
<1>. QED  BY <1>1, <1>2, <1>3, NoneChanged

LEMMA StepDeletesConnection ==
  ASSUME ProtocolInv, \A s \in Stmts : ~stmts[s].alive, deleteConnection
  PROVE  ProtocolInv'
<1>1. /\ dbc' = [Release.dbc EXCEPT !.alive = FALSE] /\ conns' = Release.conns
      /\ ret' = IF Release.ret = Throw THEN Abort ELSE Ok
      /\ UNCHANGED <<lib, stmts, asked, done>>
  BY DEF deleteConnection, Answer
<1>2. ~Busy
  <2>1. ASSUME NEW h \in 1 .. Len(lib), lib[h].status # "finalized"
        PROVE  FALSE
    <3>1. PICK s \in Stmts : Holds(stmts[s]) = h
      BY <2>1 DEF ProtocolInv, Owned
    <3>2. Holding(stmts[s], lib)
      BY DEF ProtocolInv, Sound
    <3>3. stmts[s].m_resultsets = <<>>
      BY <3>2 DEF Holding
    <3>. QED  BY <3>1, <3>3 DEF Holds, NoHandle
  <2>2. lib \in Seq(Machines)
    BY DEF ProtocolInv
  <2>. QED  BY <2>1, <2>2 DEF Busy, LiveHandles, Finalized, NoHandle
<1>3. /\ Connected(Release.dbc, Release.conns) /\ Owned(stmts, lib, Release.dbc.m_dbh)
      /\ Release.ret = Ok
  BY <1>2, Releases
<1>4. Connected(dbc', conns') /\ dbc'.m_dbh = Release.dbc.m_dbh
  <2> DEFINE d == Release.dbc
             e == [d EXCEPT !.alive = FALSE]
  <2>1. d \in [alive : BOOLEAN, m_dbh : Nat, m_isConnected : BOOLEAN]
    BY <1>3 DEF Connected
  <2> HIDE DEF d
  <2>2. /\ e \in [alive : BOOLEAN, m_dbh : Nat, m_isConnected : BOOLEAN]
        /\ e.m_dbh = d.m_dbh /\ e.m_isConnected = d.m_isConnected
    BY <2>1
  <2>3. dbc' = e /\ Connected(d, conns')
    BY <1>1, <1>3 DEF d
  <2> HIDE DEF e
  <2>. QED  BY <2>2, <2>3 DEF Connected, d
<1>5. GoesOn(ret')
  BY <1>1, <1>3, Answers
<1>6. /\ lib \in Seq(Machines)
      /\ \A t \in Stmts : Sound(stmts[t], lib, asked[t], done[t])
  BY DEF ProtocolInv
<1>. QED  BY <1>1, <1>3, <1>4, <1>5, <1>6, NoneChanged

LEMMA StepCommands ==
  ASSUME ProtocolInv, NEW sql \in Queries, directCmd(sql)
  PROVE  ProtocolInv'
<1>1. PICK o \in Commanded(sql) : lib' = o.lib /\ ret' = o.ret
  BY DEF directCmd, Answer
<1>2. UNCHANGED <<dbc, conns, stmts, asked, done>>
  BY DEF directCmd
<1>3. lib \in Seq(Machines) /\ Connected(dbc, conns) /\ Owned(stmts, lib, dbc.m_dbh)
      /\ \A t \in Stmts : Sound(stmts[t], lib, asked[t], done[t])
  BY DEF ProtocolInv
<1>4. ret' \in {Ok, Throw} /\ Effect(NewStmt, lib, NewStmt, lib', dbc.m_dbh)
  BY <1>1, <1>3, CommandsRun
<1>5. Holds(NewStmt) = NoHandle
  BY <1>3, NewStatement
<1>6. lib' \in Seq(Machines)
  BY <1>4 DEF Effect
<1>7. ASSUME NEW t \in Stmts
      PROVE  Sound(stmts[t], lib', asked[t], done[t])
  <2>1. Sound(stmts[t], lib, asked[t], done[t])
    BY <1>3
  <2>. QED  BY <1>3, <1>4, <1>5, <2>1, OtherSound
<1>8. Owned(stmts, lib', dbc.m_dbh)
  <2>1. ASSUME NEW h \in 1 .. Len(lib'), lib'[h].status # "finalized"
        PROVE  h \in 1 .. Len(lib) /\ lib'[h] = lib[h]
    <3>1. Len(lib) \in Nat /\ Len(lib') \in Nat
      BY <1>3, <1>6
    <3>. QED  BY <1>4, <1>5, <2>1, <3>1 DEF Effect, NoHandle
  <2>. QED  BY <1>3, <2>1 DEF Owned
<1>9. GoesOn(ret')
  BY <1>4, Answers
<1>10. dbc' = dbc /\ conns' = conns /\ UNCHANGED <<stmts, asked, done>>
  BY <1>2
<1>. QED  BY <1>3, <1>6, <1>7, <1>8, <1>9, <1>10, NoneChanged

\* A statement that is alive has its connection.
LEMMA Calls ==
  ASSUME ProtocolInv, NEW s \in Stmts, NEW o, NEW outcomes, Call(s, o, outcomes)
  PROVE  /\ stmts[s].alive /\ Within(stmts[s], dbc) /\ dbc.alive
         /\ \E out \in outcomes : /\ stmts' = [stmts EXCEPT ![s] = out.st]
                                  /\ lib' = out.lib /\ ret' = out.ret
         /\ UNCHANGED <<dbc, conns>>
<1>1. stmts[s].alive /\ Within(stmts[s], dbc)
  BY DEF ProtocolInv, Call
<1>2. dbc.alive
  BY <1>1 DEF Within
<1>. QED  BY <1>1, <1>2 DEF Call, Answer

\* The invariant as the lemmas on statements need it.
LEMMA OneStatement ==
  ASSUME ProtocolInv, NEW s \in Stmts
  PROVE  /\ lib \in Seq(Machines) /\ Connected(dbc, conns)
         /\ Sound(stmts[s], lib, asked[s], done[s]) /\ Holding(stmts[s], lib)
         /\ Holds(stmts[s]) \in 0 .. Len(lib) /\ done[s] \in BOOLEAN
<1>1. Sound(stmts[s], lib, asked[s], done[s])
  BY DEF ProtocolInv
<1>. QED  BY <1>1 DEF ProtocolInv, Sound, Holding, Ran

LEMMA StepMakesStatement ==
  ASSUME ProtocolInv, NEW s \in Stmts, newStatement(s)
  PROVE  ProtocolInv'
<1>1. /\ dbc.alive /\ ~stmts[s].alive
      /\ stmts' = [stmts EXCEPT ![s] = NewStmt] /\ ret' = Ok
      /\ asked' = [asked EXCEPT ![s] = <<>>] /\ done' = [done EXCEPT ![s] = FALSE]
      /\ UNCHANGED <<dbc, conns, lib>>
  BY DEF newStatement, Answer, Asks
<1>2. lib \in Seq(Machines) /\ Holding(stmts[s], lib)
  BY OneStatement
<1>3. Holds(stmts[s]) = NoHandle
  BY <1>1, <1>2 DEF Holding, Holds
<1>4. /\ Sound(NewStmt, lib, <<>>, FALSE) /\ Holds(NewStmt) = NoHandle
      /\ NewStmt.m_resultsets = <<>>
  BY <1>2, NewStatement
<1>5. Effect(stmts[s], lib, NewStmt, lib, dbc.m_dbh)
  BY <1>2, <1>3, <1>4, NoEffect DEF NoHandle
<1>6. Within(NewStmt, dbc)
  BY <1>1, <1>4 DEF Within
<1>7. GoesOn(ret') /\ lib' = lib /\ UNCHANGED <<dbc, conns>>
  BY <1>1, Answers
<1>. QED  BY <1>1, <1>4, <1>5, <1>6, <1>7, OneChanged

LEMMA StepPrepares ==
  ASSUME ProtocolInv, NEW s \in Stmts, stmts[s].m_resultsets = <<>>, NEW sql \in Queries,
         prepare(s, sql)
  PROVE  ProtocolInv'
<1>1. /\ Call(s, <<"prepare">>, StmtPrepare(stmts[s], lib, sql))
      /\ asked' = [asked EXCEPT ![s] = asked[s]]
      /\ done' = [done EXCEPT ![s] = ret' # Ok /\ done[s]]
      /\ Len(stmts[s].m_resultsets) < MaxSets
  BY DEF prepare, Asks
<1>2. /\ stmts[s].alive /\ dbc.alive /\ UNCHANGED <<dbc, conns>>
      /\ \E out \in StmtPrepare(stmts[s], lib, sql) :
           /\ stmts' = [stmts EXCEPT ![s] = out.st]
           /\ lib' = out.lib /\ ret' = out.ret
  BY <1>1, Calls
<1>3. PICK out \in StmtPrepare(stmts[s], lib, sql) :
        /\ stmts' = [stmts EXCEPT ![s] = out.st]
        /\ lib' = out.lib /\ ret' = out.ret
  BY <1>2
<1>4. /\ lib \in Seq(Machines) /\ Connected(dbc, conns)
      /\ Sound(stmts[s], lib, asked[s], done[s]) /\ done[s] \in BOOLEAN
  BY OneStatement
<1>5. /\ out.ret \in {Ok, Throw} /\ Sound(out.st, out.lib, asked[s], FALSE)
      /\ Effect(stmts[s], lib, out.st, out.lib, dbc.m_dbh)
  BY <1>2, <1>4, StmtPrepares
<1>6. done[s] = FALSE
  BY <1>4 DEF Sound, Ran
<1>7. done' = [done EXCEPT ![s] = FALSE]
  BY <1>1, <1>6
<1>8. Within(out.st, dbc)
  <2>1. Len(<<>>) = 0 /\ MaxSets \in Nat
    BY ConnectionAssumption
  <2>2. 1 \in 1 .. MaxSets
    BY <1>1, <2>1
  <2>. QED  BY <1>2, <2>2 DEF Within
<1>9. GoesOn(ret')
  BY <1>3, <1>5, Answers
<1>. QED  BY <1>1, <1>2, <1>3, <1>5, <1>7, <1>8, <1>9, OneChanged

LEMMA StepExecutes ==
  ASSUME ProtocolInv, NEW s \in Stmts, execute(s)
  PROVE  ProtocolInv'
<1>1. /\ Call(s, <<"execute">>, StmtExecute(stmts[s], lib))
      /\ asked' = [asked EXCEPT ![s] = asked[s]]
      /\ done' = [done EXCEPT ![s] = ret' = Ok /\ stmts[s].m_resultsets # <<>>]
  BY DEF execute, Asks
<1>2. /\ stmts[s].alive /\ dbc.alive /\ Within(stmts[s], dbc) /\ UNCHANGED <<dbc, conns>>
      /\ \E out \in StmtExecute(stmts[s], lib) :
           /\ stmts' = [stmts EXCEPT ![s] = out.st]
           /\ lib' = out.lib /\ ret' = out.ret
  BY <1>1, Calls
<1>3. PICK out \in StmtExecute(stmts[s], lib) :
        /\ stmts' = [stmts EXCEPT ![s] = out.st]
        /\ lib' = out.lib /\ ret' = out.ret
  BY <1>2
<1>4. lib \in Seq(Machines) /\ Sound(stmts[s], lib, asked[s], done[s])
  BY OneStatement
<1>5. /\ out.ret \in {Ok, Throw}
      /\ Sound(out.st, out.lib, asked[s], out.ret = Ok /\ stmts[s].m_resultsets # <<>>)
      /\ Effect(stmts[s], lib, out.st, out.lib, dbc.m_dbh)
      /\ out.st.m_resultsets # <<>> => stmts[s].m_resultsets # <<>>
  BY <1>4, StmtExecutes
<1>6. done' = [done EXCEPT ![s] = out.ret = Ok /\ stmts[s].m_resultsets # <<>>]
  BY <1>1, <1>3
<1>7. Within(out.st, dbc)
  BY <1>2, <1>5 DEF Within
<1>8. GoesOn(ret')
  BY <1>3, <1>5, Answers
<1> DEFINE d == out.ret = Ok /\ stmts[s].m_resultsets # <<>>
<1>9. Sound(out.st, out.lib, asked[s], d) /\ done' = [done EXCEPT ![s] = d]
  BY <1>5, <1>6
<1> HIDE DEF d
<1>. QED  BY <1>1, <1>2, <1>3, <1>5, <1>7, <1>8, <1>9, OneChanged

LEMMA StepBinds ==
  ASSUME ProtocolInv, NEW s \in Stmts, NEW n \in Numbers, NEW v \in Values, bind(s, n, v)
  PROVE  ProtocolInv'
<1> DEFINE a == [i \in DOMAIN asked[s] \union {n} |-> IF i = n THEN v ELSE asked[s][i]]
           q == Bound(stmts[s], n, v)
<1>1. /\ stmts' = [stmts EXCEPT ![s] = q] /\ ret' = Ok
      /\ asked' = [asked EXCEPT ![s] = a] /\ done' = [done EXCEPT ![s] = FALSE]
      /\ lib' = lib /\ UNCHANGED <<dbc, conns>>
  <2>1. stmts' = [stmts EXCEPT ![s] = Bound(stmts[s], n, v)]
    BY DEF bind, ProtocolInv
  <2>. QED  BY <2>1 DEF bind, Answer, Asks
<1>2. /\ lib \in Seq(Machines) /\ Sound(stmts[s], lib, asked[s], done[s])
      /\ Holds(stmts[s]) \in 0 .. Len(lib)
  BY OneStatement
<1>3. /\ Sound(q, lib, a, FALSE) /\ Holds(q) = Holds(stmts[s])
      /\ q.alive = stmts[s].alive /\ q.m_resultsets = stmts[s].m_resultsets
  BY <1>2, BindsValue
<1> HIDE DEF q, a
<1>4. Effect(stmts[s], lib, q, lib, dbc.m_dbh)
  BY <1>2, <1>3, NoEffect
<1>5. Within(q, dbc)
  <2>1. Within(stmts[s], dbc)
    BY DEF ProtocolInv
  <2>. QED  BY <1>3, <2>1 DEF Within
<1>6. GoesOn(ret')
  BY <1>1, Answers
<1>. QED  BY <1>1, <1>3, <1>4, <1>5, <1>6, OneChanged

\* A statement is closed, and deleted (b is FALSE) or not.
LEMMA Closes ==
  ASSUME ProtocolInv, NEW s \in Stmts, Within(stmts[s], dbc),
         NEW out \in StmtClose(stmts[s], lib), NEW b, b \in {stmts[s].alive, FALSE},
         stmts' = [stmts EXCEPT ![s] = [out.st EXCEPT !.alive = b]],
         lib' = out.lib, ret' = out.ret, UNCHANGED <<dbc, conns>>,
         asked' = [asked EXCEPT ![s] = <<>>], done' = [done EXCEPT ![s] = FALSE]
  PROVE  ProtocolInv'
<1> DEFINE q == [Cleared(stmts[s]) EXCEPT !.alive = b]
<1>1. /\ lib \in Seq(Machines) /\ Sound(stmts[s], lib, asked[s], done[s])
      /\ IsStatement(stmts[s])
  BY OneStatement DEF Holding
<1>2. Holds(q) = NoHandle /\ q.m_resultsets = <<>>
  BY <1>1, ClearedStatement
<1>3. q.alive => dbc.alive
  <2>1. q.alive = b
    BY <1>1 DEF Cleared, IsStatement
  <2>2. stmts[s].alive => dbc.alive
    BY DEF Within
  <2>3. b = stmts[s].alive \/ b = FALSE
    OBVIOUS
  <2>. QED  BY <2>1, <2>2, <2>3
<1>4. stmts' = [stmts EXCEPT ![s] = [out.st EXCEPT !.alive = b]]
  OBVIOUS
<1> HIDE DEF q
<1>5. /\ out.ret = Ok /\ out.st = Cleared(stmts[s])
      /\ Effect(stmts[s], lib, q, out.lib, dbc.m_dbh)
  BY <1>1, <1>2, StmtCloses
<1>6. out.lib \in Seq(Machines)
  BY <1>5 DEF Effect
<1>7. Sound(q, out.lib, <<>>, FALSE)
  BY <1>1, <1>6, ClearedStatement DEF q
<1>8. stmts' = [stmts EXCEPT ![s] = q]
  BY <1>4, <1>5 DEF q
<1>9. Within(q, dbc)
  BY <1>2, <1>3 DEF Within
<1>10. GoesOn(ret')
  BY <1>5, Answers
<1>. QED  BY <1>5, <1>7, <1>8, <1>9, <1>10, OneChanged

LEMMA StepCloses ==
  ASSUME ProtocolInv, NEW s \in Stmts, close(s)
  PROVE  ProtocolInv'
<1>1. /\ Call(s, <<"close">>, StmtClose(stmts[s], lib))
      /\ asked' = [asked EXCEPT ![s] = <<>>] /\ done' = [done EXCEPT ![s] = FALSE]
  BY DEF close, Asks
<1>2. /\ Within(stmts[s], dbc) /\ UNCHANGED <<dbc, conns>>
      /\ \E out \in StmtClose(stmts[s], lib) :
           /\ stmts' = [stmts EXCEPT ![s] = out.st]
           /\ lib' = out.lib /\ ret' = out.ret
  BY <1>1, Calls
<1>3. PICK out \in StmtClose(stmts[s], lib) :
        /\ stmts' = [stmts EXCEPT ![s] = out.st]
        /\ lib' = out.lib /\ ret' = out.ret
  BY <1>2
<1>4. /\ lib \in Seq(Machines) /\ Sound(stmts[s], lib, asked[s], done[s])
      /\ IsStatement(stmts[s])
  BY OneStatement DEF Holding
<1>5. out.st = Cleared(stmts[s])
  <2> DEFINE q == NewStmt
  <2>1. Holds(q) = NoHandle
    BY <1>4, NewStatement
  <2> HIDE DEF q
  <2>. QED  BY <1>4, <2>1, StmtCloses
<1>6. [out.st EXCEPT !.alive = stmts[s].alive] = out.st
  BY <1>4, <1>5 DEF Cleared, IsStatement
<1> DEFINE b == stmts[s].alive
<1>7. b \in {stmts[s].alive, FALSE} /\ [out.st EXCEPT !.alive = b] = out.st
  BY <1>6
<1>8. stmts' = [stmts EXCEPT ![s] = [out.st EXCEPT !.alive = b]]
  BY <1>3, <1>7
<1> HIDE DEF b
<1>. QED  BY <1>1, <1>2, <1>3, <1>7, <1>8, Closes

LEMMA StepDeletesStatement ==
  ASSUME ProtocolInv, NEW s \in Stmts, deleteStatement(s)
  PROVE  ProtocolInv'
<1> DEFINE deleted == {[o EXCEPT !.st.alive = FALSE] : o \in StmtClose(stmts[s], lib)}
<1>1. /\ Call(s, <<"deleteStatement">>, deleted)
      /\ asked' = [asked EXCEPT ![s] = <<>>] /\ done' = [done EXCEPT ![s] = FALSE]
  BY DEF deleteStatement, Asks
<1>2. /\ Within(stmts[s], dbc) /\ UNCHANGED <<dbc, conns>>
      /\ \E out \in deleted :
           /\ stmts' = [stmts EXCEPT ![s] = out.st]
           /\ lib' = out.lib /\ ret' = out.ret
  <2> HIDE DEF deleted
  <2>. QED  BY <1>1, Calls
<1>3. PICK o \in StmtClose(stmts[s], lib) :
        LET out == [o EXCEPT !.st.alive = FALSE]
        IN  /\ stmts' = [stmts EXCEPT ![s] = out.st]
            /\ lib' = out.lib /\ ret' = out.ret
  BY <1>2
<1>4. \E st, l, x : o = StmtOutcome(st, l, x)
  BY DEF StmtClose
<1>5. LET out == [o EXCEPT !.st.alive = FALSE]
      IN  out.st = [o.st EXCEPT !.alive = FALSE] /\ out.lib = o.lib /\ out.ret = o.ret
  BY <1>4 DEF StmtOutcome
<1>6. /\ stmts' = [stmts EXCEPT ![s] = [o.st EXCEPT !.alive = FALSE]]
      /\ lib' = o.lib /\ ret' = o.ret
  BY <1>3, <1>5
<1>. QED  BY <1>1, <1>2, <1>6, Closes

LEMMA StepAttaches ==
  ASSUME ProtocolInv, NEW s \in Stmts, attach(s)
  PROVE  ProtocolInv'
<1>1. /\ Call(s, <<"attach">>,
              {StmtOutcome(stmts[s], lib,
                           IF stmts[s].m_resultsets = <<>> THEN Throw ELSE Ok)})
      /\ UNCHANGED <<asked, done>>
  BY DEF attach
<1> DEFINE x == IF stmts[s].m_resultsets = <<>> THEN Throw ELSE Ok
           out == StmtOutcome(stmts[s], lib, x)
<1>2. /\ stmts' = [stmts EXCEPT ![s] = out.st]
      /\ lib' = out.lib /\ ret' = out.ret /\ UNCHANGED <<dbc, conns>>
  <2> HIDE DEF out
  <2>1. Call(s, <<"attach">>, {out})
    BY <1>1 DEF out
  <2>. QED  BY <2>1, Calls
<1>3. /\ lib \in Seq(Machines) /\ Connected(dbc, conns) /\ Owned(stmts, lib, dbc.m_dbh)
      /\ \A t \in Stmts : Sound(stmts[t], lib, asked[t], done[t])
      /\ OfEach(asked) /\ OfEach(done)
  BY DEF ProtocolInv
<1>4. /\ lib' = lib /\ ret' = x /\ stmts' = [stmts EXCEPT ![s] = stmts[s]]
  <2> HIDE DEF x
  <2>1. out.st = stmts[s] /\ out.lib = lib /\ out.ret = x
    BY OutcomeMembers
  <2>. QED  BY <1>2, <2>1
<1>5. GoesOn(ret')
  BY <1>4, Answers DEF x
<1>6. Sound(stmts[s], lib, asked[s], done[s]) /\ Within(stmts[s], dbc)
  BY DEF ProtocolInv
<1>7. Effect(stmts[s], lib, stmts[s], lib, dbc.m_dbh)
  BY <1>3, OneStatement, NoEffect
<1>8. asked' = [asked EXCEPT ![s] = asked[s]] /\ done' = [done EXCEPT ![s] = done[s]]
  BY <1>1, <1>3 DEF OfEach
<1>. QED  BY <1>2, <1>4, <1>5, <1>6, <1>7, <1>8, OneChanged

-----------------------------------------------------------------------------
(* Every behaviour                                                         *)

LEMMA ProtocolInit == Init => ProtocolInv
<1> SUFFICES ASSUME Init PROVE ProtocolInv
  OBVIOUS
<1> DEFINE z == [NewStmt EXCEPT !.alive = FALSE]
<1>1. /\ dbc = [alive |-> TRUE, m_dbh |-> NoConn, m_isConnected |-> FALSE]
      /\ conns = <<>> /\ lib = <<>> /\ ret = None
      /\ stmts = [s \in Stmts |-> z]
      /\ asked = [s \in Stmts |-> <<>>] /\ done = [s \in Stmts |-> FALSE]
  BY DEF Init
<1>2. lib \in Seq(Machines) /\ Len(lib) = 0 /\ conns \in Seq(BOOLEAN) /\ Len(conns) = 0
  BY <1>1
<1>3. Connected(dbc, conns)
  BY <1>1, <1>2 DEF Connected, NoConn
<1>4. Sound(z, lib, <<>>, FALSE) /\ Holds(z) = NoHandle /\ z.m_resultsets = <<>> /\ ~z.alive
  <2>1. /\ Sound(NewStmt, lib, <<>>, FALSE) /\ NewStmt.m_resultsets = <<>>
        /\ DOMAIN NewStmt =
             {"alive", "m_cursorstate", "m_resultsets", "m_params", "m_temp_params"}
        /\ NewStmt.m_params = <<>> /\ NewStmt.m_temp_params = <<>>
    BY <1>2, NewStatement DEF NewStmt
  <2>2. /\ DOMAIN z = DOMAIN NewStmt /\ z.m_resultsets = <<>> /\ z.alive = FALSE
        /\ z.m_params = <<>> /\ z.m_temp_params = <<>>
    BY <2>1 DEF NewStmt
  <2> HIDE DEF z
  <2>3. Holds(z) = NoHandle
    BY <2>2 DEF Holds
  <2>4. <<>> \in Seq(Values)
    OBVIOUS
  <2>5. IsStatement(z)
    BY <2>1, <2>2, <2>4 DEF IsStatement
  <2>6. Holding(z, lib)
    BY <1>2, <2>2, <2>3, <2>5 DEF Holding, Finalized, NoHandle
  <2>7. Answering(z, <<>>) /\ Ran(z, lib, <<>>, FALSE)
    BY <2>2, <2>3, NothingBound DEF Answering, Ran
  <2>. QED  BY <2>2, <2>3, <2>6, <2>7 DEF Sound
<1> HIDE DEF z
<1>5. \A s \in Stmts : Sound(stmts[s], lib, asked[s], done[s])
  BY <1>1, <1>4
<1>6. \A s \in Stmts : Within(stmts[s], dbc) /\ Holds(stmts[s]) = NoHandle
  BY <1>1, <1>4 DEF Within
<1>7. Owned(stmts, lib, dbc.m_dbh)
  BY <1>2, <1>6 DEF Owned
<1>8. OfEach(stmts) /\ OfEach(asked) /\ OfEach(done) /\ Running
  BY <1>1, Answers DEF OfEach, Running
<1>. QED  BY <1>2, <1>3, <1>5, <1>6, <1>7, <1>8 DEF ProtocolInv

LEMMA ProtocolStep == ProtocolInv /\ [Careful]_vars => ProtocolInv'
<1> SUFFICES ASSUME ProtocolInv, [Careful]_vars PROVE ProtocolInv'
  OBVIOUS
<1>1. CASE dbc.m_dbh = NoConn /\ connect
  BY <1>1, StepConnects
<1>2. CASE disconnect
  BY <1>2, StepDisconnects
<1>3. CASE (\A s \in Stmts : ~stmts[s].alive) /\ deleteConnection
  BY <1>3, StepDeletesConnection
<1>4. ASSUME NEW sql \in Queries, directCmd(sql)
      PROVE  ProtocolInv'
  BY <1>4, StepCommands
<1>5. ASSUME NEW s \in Stmts, newStatement(s)
      PROVE  ProtocolInv'
  BY <1>5, StepMakesStatement
<1>6. ASSUME NEW s \in Stmts, execute(s)
      PROVE  ProtocolInv'
  BY <1>6, StepExecutes
<1>7. ASSUME NEW s \in Stmts, close(s)
      PROVE  ProtocolInv'
  BY <1>7, StepCloses
<1>8. ASSUME NEW s \in Stmts, deleteStatement(s)
      PROVE  ProtocolInv'
  BY <1>8, StepDeletesStatement
<1>9. ASSUME NEW s \in Stmts, attach(s)
      PROVE  ProtocolInv'
  BY <1>9, StepAttaches
<1>10. ASSUME NEW s \in Stmts, stmts[s].m_resultsets = <<>>, NEW sql \in Queries,
              prepare(s, sql)
       PROVE  ProtocolInv'
  BY <1>10, StepPrepares
<1>11. ASSUME NEW s \in Stmts, NEW n \in Numbers, NEW v \in Values, bind(s, n, v)
       PROVE  ProtocolInv'
  BY <1>11, StepBinds
<1>12. CASE UNCHANGED vars
  <2>1. /\ dbc' = dbc /\ conns' = conns /\ lib' = lib /\ ret' = ret
        /\ UNCHANGED <<stmts, asked, done>>
    BY <1>12 DEF vars
  <2>2. /\ Connected(dbc, conns) /\ lib \in Seq(Machines) /\ Owned(stmts, lib, dbc.m_dbh)
        /\ \A s \in Stmts : Sound(stmts[s], lib, asked[s], done[s])
        /\ GoesOn(ret)
    BY DEF ProtocolInv, Running
  <2>. QED  BY <2>1, <2>2, NoneChanged
<1>. QED  BY <1>1, <1>2, <1>3, <1>4, <1>5, <1>6, <1>7, <1>8, <1>9, <1>10, <1>11, <1>12
          DEF Careful

\* The owners of a machine are the first resultsets of the statements that hold
\* it.
LEMMA OwnersHold ==
  ASSUME ProtocolInv, NEW h \in Nat
  PROVE  /\ \A p \in Owners(h) : p = <<p[1], 1>> /\ p[1] \in Stmts /\ Holds(stmts[p[1]]) = h
         /\ \A s \in Stmts : Holds(stmts[s]) = h /\ h # NoHandle => <<s, 1>> \in Owners(h)
<1>1. ASSUME NEW s \in Stmts
      PROVE  \/ stmts[s].m_resultsets = <<>> /\ Holds(stmts[s]) = NoHandle
             \/ /\ DOMAIN stmts[s].m_resultsets = {1} /\ 1 \in 1 .. MaxSets
                /\ Holds(stmts[s]) = stmts[s].m_resultsets[1].m_handle
  <2>1. Holding(stmts[s], lib) /\ Within(stmts[s], dbc)
    BY OneStatement DEF ProtocolInv
  <2>2. stmts[s].m_resultsets = <<>> \/ \E r : stmts[s].m_resultsets = <<r>>
    BY <2>1 DEF Holding, IsStatement
  <2>. QED  BY <2>1, <2>2 DEF Within, Holds
<1>2. ASSUME NEW p \in Owners(h)
      PROVE  p = <<p[1], 1>> /\ p[1] \in Stmts /\ Holds(stmts[p[1]]) = h
  <2>1. /\ p \in Stmts \X (1 .. MaxSets) /\ p[2] \in DOMAIN stmts[p[1]].m_resultsets
        /\ stmts[p[1]].m_resultsets[p[2]].m_handle = h
    BY DEF Owners
  <2>2. p[1] \in Stmts /\ p = <<p[1], p[2]>>
    BY <2>1
  <2>3. stmts[p[1]].m_resultsets # <<>>
    BY <2>1
  <2>. QED  BY <1>1, <2>1, <2>2, <2>3
<1>3. ASSUME NEW s \in Stmts, Holds(stmts[s]) = h, h # NoHandle
      PROVE  <<s, 1>> \in Owners(h)
  BY <1>1, <1>3 DEF Owners
<1>. QED  BY <1>2, <1>3

LEMMA InvOwned == ProtocolInv => MachinesOwned
<1> SUFFICES ASSUME ProtocolInv, NEW h \in DOMAIN lib
             PROVE  /\ h \in LiveHandles(lib) =>
                         /\ conns[lib[h].conn]
                         /\ \E p \in Owners(h) : Owners(h) = {p} /\ stmts[p[1]].alive
                    /\ h \notin LiveHandles(lib) => Owners(h) = {}
  BY DEF MachinesOwned
<1>1. lib \in Seq(Machines) /\ Connected(dbc, conns) /\ Owned(stmts, lib, dbc.m_dbh)
  BY DEF ProtocolInv
<1>2. h \in 1 .. Len(lib) /\ h \in Nat /\ h # NoHandle
  BY <1>1 DEF NoHandle
<1>3. h \in LiveHandles(lib) <=> lib[h].status # "finalized"
  BY <1>2 DEF LiveHandles, Finalized
<1>4. ASSUME lib[h].status # "finalized"
      PROVE  /\ conns[lib[h].conn]
             /\ \E p \in Owners(h) : Owners(h) = {p} /\ stmts[p[1]].alive
  <2>1. PICK s \in Stmts : /\ Holds(stmts[s]) = h /\ lib[h].conn = dbc.m_dbh
                           /\ dbc.m_dbh # NoConn
    BY <1>1, <1>2, <1>4 DEF Owned
  <2>2. conns[lib[h].conn]
    BY <1>1, <2>1 DEF Connected
  <2>3. <<s, 1>> \in Owners(h)
    BY <1>2, <2>1, OwnersHold
  <2>4. ASSUME NEW p \in Owners(h)
        PROVE  p = <<s, 1>>
    <3>1. p = <<p[1], 1>> /\ p[1] \in Stmts /\ Holds(stmts[p[1]]) = h
      BY <1>2, OwnersHold
    <3>2. p[1] = s
      BY <1>1, <1>2, <2>1, <3>1 DEF Owned
    <3>. QED  BY <3>1, <3>2
  <2>5. stmts[s].alive
    <3>1. Holding(stmts[s], lib)
      BY OneStatement
    <3>2. stmts[s].m_resultsets # <<>>
      BY <1>2, <2>1 DEF Holds
    <3>. QED  BY <3>1, <3>2 DEF Holding
  <2>6. Owners(h) = {<<s, 1>>} /\ <<s, 1>>[1] = s
    BY <2>3, <2>4
  <2>. QED  BY <2>2, <2>3, <2>5, <2>6
<1>5. ASSUME lib[h].status = "finalized", NEW p \in Owners(h)
      PROVE  FALSE
  <2>1. p[1] \in Stmts /\ Holds(stmts[p[1]]) = h
    BY <1>2, OwnersHold
  <2>2. Holding(stmts[p[1]], lib)
    BY <2>1, OneStatement
  <2>. QED  BY <1>2, <1>5, <2>1, <2>2 DEF Holding, Finalized
<1>. QED  BY <1>3, <1>4, <1>5

LEMMA InvBound == ProtocolInv => BoundAsAsked
<1> SUFFICES ASSUME ProtocolInv, NEW s \in Stmts, done[s], Current(s) # NoHandle
             PROVE  LET bound == lib[Current(s)].bound
                    IN  /\ DOMAIN bound = DOMAIN asked[s]
                        /\ \A n \in DOMAIN bound :
                             bound[n] = IF asked[s][n] \in Blobs THEN Dead ELSE asked[s][n]
  BY DEF BoundAsAsked
<1>1. Sound(stmts[s], lib, asked[s], done[s])
  BY OneStatement
<1>2. stmts[s].m_resultsets # <<>>
  BY <1>1 DEF Sound, Ran
<1>3. Holds(stmts[s]) = Current(s)
  BY <1>2 DEF Holds, Current
<1>4. RunWith(lib[Current(s)].bound, asked[s])
  BY <1>1, <1>3 DEF Sound, Ran
<1>. QED  BY <1>4 DEF RunWith, Frozen

LEMMA InvConnected == ProtocolInv => NoConnectionLost
<1>1. ASSUME ProtocolInv
      PROVE  NoConnectionLost
  <2>1. conns \in Seq(BOOLEAN) /\ \A c \in 1 .. Len(conns) : conns[c] => c = dbc.m_dbh
    BY <1>1 DEF ProtocolInv, Connected
  <2>. QED  BY <2>1 DEF NoConnectionLost
<1>. QED  BY <1>1

\* What holds between two calls of a client that keeps the protocol: see
\* ProtocolInv.
THEOREM ProtocolInductive == ProtocolSpec => []ProtocolInv
BY ProtocolInit, ProtocolStep, PTL DEF ProtocolSpec

\* No machine of the library is lost or shared: each that was not finalized
\* belongs to one resultset of one statement, on an open connection, and no
\* resultset has a machine that was finalized.
THEOREM MachinesAreOwned == ProtocolSpec => []MachinesOwned
BY ProtocolInductive, InvOwned, PTL

\* No call uses a deleted connection, a finalized machine or a deleted
\* parameter, aborts, or throws out of a destructor.
THEOREM ConnectionDefined == ProtocolSpec => []Defined
<1>1. ProtocolInv => Defined
  BY DEF ProtocolInv, Defined
<1>. QED  BY ProtocolInductive, <1>1, PTL

\* disconnect() reaches the only connection that is open.
THEOREM ConnectionsAreKept == ProtocolSpec => []NoConnectionLost
BY ProtocolInductive, InvConnected, PTL

\* A query is executed with the values that were bound since its statement was
\* last closed, all of them and no others.
THEOREM ExecutedAsAsked == ProtocolSpec => []BoundAsAsked
BY ProtocolInductive, InvBound, PTL

-----------------------------------------------------------------------------
(***************************************************************************)
(* The two views of the engine: what is proved of a connection, and of a   *)
(* resultset alone, holds of both together.                                *)
(***************************************************************************)

Proved ==
  INSTANCE SqliteResultProofs WITH
    lib <- machines, op <- call, ret <- answer,
    ParamCount <- ResultParams, Numbers <- ResultNumbers, MaxRows <- ResultRows,
    Width <- ResultWidth, MaxHandles <- ResultHandles, MaxTuple <- ResultTuple,
    Conn <- ResultConn

\* The resultset's constants are what its proofs assume.
LEMMA ResultAssumed ==
  /\ ResultParams \in [Queries -> Nat] /\ ResultNumbers \subseteq Nat
  /\ Blobs \subseteq Values /\ Dead \notin Values /\ ResultRows \in Nat
  /\ ResultWidth \in Nat /\ NDEBUG \in BOOLEAN
BY LibraryAssumption, NDEBUGAssumption, ResultAssumption

\* Result and Proved are instances of the same module: their definitions say the
\* same, down to those of the operators.
LEMMA SameProtocol == (Result!Init <=> Proved!Init) /\ (Result!Protocol <=> Proved!Protocol)
BY DEF Result!Ranked, Proved!Ranked, Result!CLOSED, Proved!CLOSED, Result!Mask,
       Proved!Mask, Result!SetCursorState, Proved!SetCursorState, Result!None,
       Proved!None, Result!Ok, Proved!Ok, Result!Yes, Proved!Yes, Result!No,
       Proved!No, Result!Throw, Proved!Throw, Result!Abort, Proved!Abort,
       Result!Undefined, Proved!Undefined, Result!Bool, Proved!Bool, Result!Value,
       Proved!Value, Result!GoesOn, Proved!GoesOn, Result!NoHandle,
       Proved!NoHandle, Result!NewMachine, Proved!NewMachine, Result!Finalized,
       Proved!Finalized, Result!OnRow, Proved!OnRow, Result!HasDead,
       Proved!HasDead, Result!Finalize, Proved!Finalize, Result!Reset,
       Proved!Reset, Result!Bind, Proved!Bind, Result!FreeBlobs, Proved!FreeBlobs,
       Result!Delivered, Proved!Delivered, Result!Steps, Proved!Steps,
       Result!Columns, Proved!Columns, Result!NoBytes, Proved!NoBytes,
       Result!OldBytes, Proved!OldBytes, Result!Outcome, Proved!Outcome,
       Result!Only, Proved!Only, Result!IsBad, Proved!IsBad, Result!IsPrepared,
       Proved!IsPrepared, Result!IsOpen, Proved!IsOpen, Result!IsEof, Proved!IsEof,
       Result!ResultInit, Proved!ResultInit, Result!SetState, Proved!SetState,
       Result!Invalidated, Proved!Invalidated, Result!Refreshed, Proved!Refreshed,
       Result!FreedRead, Proved!FreedRead, Result!RsClose, Proved!RsClose,
       Result!Compiled, Proved!Compiled, Result!RsPrepare, Proved!RsPrepare,
       Result!Rewound, Proved!Rewound, Result!Below, Proved!Below, Result!InRange,
       Proved!InRange, Result!Bindings, Proved!Bindings, Result!Started,
       Proved!Started, Result!Returned, Proved!Returned, Result!RsExecute,
       Proved!RsExecute, Result!Unusable, Proved!Unusable, Result!RsFirst,
       Proved!RsFirst, Result!RsEof, Proved!RsEof, Result!Moved, Proved!Moved,
       Result!RsNext, Proved!RsNext, Result!Reading, Proved!Reading,
       Result!ThisRow, Proved!ThisRow, Result!RsColumn, Proved!RsColumn,
       Result!Filled, Proved!Filled, Result!RsGetBlob, Proved!RsGetBlob,
       Result!RsReadBuffer, Proved!RsReadBuffer, Result!RsRowID, Proved!RsRowID,
       Result!RsDescribeColumn, Proved!RsDescribeColumn, Result!RsColumnID,
       Proved!RsColumnID, Result!RsParamCount, Proved!RsParamCount,
       Result!RsLastInsertRowId, Proved!RsLastInsertRowId, Result!RsDestroy,
       Proved!RsDestroy, Result!vars, Proved!vars, Result!Init, Proved!Init,
       Result!Running, Proved!Running, Result!Params, Proved!Params, Result!Call,
       Proved!Call, Result!Alive, Proved!Alive, Result!prepare, Proved!prepare,
       Result!execute, Proved!execute, Result!first, Proved!first, Result!next,
       Proved!next, Result!eof, Proved!eof, Result!column, Proved!column,
       Result!columnID, Proved!columnID, Result!describeColumn,
       Proved!describeColumn, Result!getBlob, Proved!getBlob,
       Result!getCurrentRowID, Proved!getCurrentRowID, Result!paramCount,
       Proved!paramCount, Result!lastInsertRowId, Proved!lastInsertRowId,
       Result!readBuffer, Proved!readBuffer, Result!destroy, Proved!destroy,
       Result!ColumnNumbers, Proved!ColumnNumbers, Result!OnLiveRow,
       Proved!OnLiveRow, Result!CanMove, Proved!CanMove, Result!Grown,
       Proved!Grown, Result!Question, Proved!Question, Result!Protocol,
       Proved!Protocol

LEMMA SameDefined == (Result!Defined <=> Proved!Defined) /\ (Result!EofIsTrue <=> Proved!EofIsTrue)
BY DEF Result!Defined, Proved!Defined, Result!EofIsTrue, Proved!EofIsTrue, Result!Running, Proved!Running,
       Result!GoesOn, Proved!GoesOn, Result!Abort, Proved!Abort, Result!Undefined, Proved!Undefined,
       Result!Unusable, Proved!Unusable, Result!IsBad, Proved!IsBad, Result!IsOpen, Proved!IsOpen,
       Result!IsEof, Proved!IsEof, Result!OnRow, Proved!OnRow, Result!NoHandle, Proved!NoHandle

LEMMA SameDataset ==
  /\ Result!Dataset!Init <=> Proved!Dataset!Init
  /\ [Result!Dataset!Step]_(Result!Dataset!vars) <=> [Proved!Dataset!Step]_(Proved!Dataset!vars)
BY DEF Result!Dataset!vars, Proved!Dataset!vars, Result!Dataset!OnRow,
       Proved!Dataset!OnRow, Result!Dataset!Init, Proved!Dataset!Init,
       Result!Dataset!Answer, Proved!Dataset!Answer, Result!Dataset!Execute,
       Proved!Dataset!Execute, Result!Dataset!First, Proved!Dataset!First,
       Result!Dataset!Next, Proved!Dataset!Next, Result!Dataset!Eof,
       Proved!Dataset!Eof, Result!Dataset!RowID, Proved!Dataset!RowID,
       Result!Dataset!Read, Proved!Dataset!Read, Result!Dataset!Release,
       Proved!Dataset!Release, Result!Dataset!Ask, Proved!Dataset!Ask,
       Result!Dataset!Step, Proved!Dataset!Step, Result!Dataset!None,
       Proved!Dataset!None, Result!Dataset!Ok, Proved!Dataset!Ok,
       Result!Dataset!Yes, Proved!Dataset!Yes, Result!Dataset!No,
       Proved!Dataset!No, Result!Dataset!Throw, Proved!Dataset!Throw,
       Result!Dataset!Bool, Proved!Dataset!Bool, Result!Dataset!Value,
       Proved!Dataset!Value, Result!position, Proved!position, Result!atEnd,
       Proved!atEnd, Result!ColumnNumbers, Proved!ColumnNumbers, Result!Unusable,
       Proved!Unusable, Result!IsBad, Proved!IsBad, Result!IsOpen, Proved!IsOpen,
       Result!IsEof, Proved!IsEof

\* A behaviour of both views is one of each.
LEMMA Views == SqliteSpec => ProtocolSpec /\ Proved!ProtocolSpec
<1>1. SqliteInit => Init /\ Proved!Init
  BY SameProtocol DEF SqliteInit
<1>2. [SqliteNext]_<<topic, vars, resultVars>> => [Careful]_vars /\ [Proved!Protocol]_(Proved!vars)
  <2>1. CASE UNCHANGED <<topic, vars, resultVars>>
    BY <2>1 DEF resultVars, Proved!vars
  <2>2. CASE SqliteNext
    BY <2>2, SameProtocol DEF SqliteNext, resultVars, Proved!vars
  <2>. QED  BY <2>1, <2>2
<1>. QED  BY <1>1, <1>2, PTL DEF SqliteSpec, ProtocolSpec, Proved!ProtocolSpec

\* No call of either view uses what is gone, or fails in an assert.
THEOREM EngineDefined == SqliteSpec => []AllDefined
<1>1. Proved!ProtocolSpec => []Proved!Defined
  BY Proved!AlwaysDefined, ResultAssumed
<1>2. Defined /\ Proved!Defined => AllDefined
  BY SameDefined DEF AllDefined
<1>. QED  BY Views, ConnectionDefined, <1>1, <1>2, PTL

\* eof() and the row number of a resultset tell the truth about its machine.
THEOREM EngineEofTrue == SqliteSpec => []EofIsTrue
<1>1. Proved!ProtocolSpec => []Proved!EofIsTrue
  BY Proved!EofToldTrue, ResultAssumed
<1>2. Proved!EofIsTrue => EofIsTrue
  BY SameDefined DEF EofIsTrue
<1>. QED  BY Views, <1>1, <1>2, PTL

\* A resultset is a forward-only dataset.
THEOREM EngineRefines == SqliteSpec => ImplementsDataset
<1>1. Proved!ProtocolSpec => Proved!ImplementsDataset
  BY Proved!Refinement, ResultAssumed
<1>2. Proved!ImplementsDataset => ImplementsDataset
  BY SameDataset, PTL
  DEF ImplementsDataset, Proved!ImplementsDataset, Result!ImplementsDataset,
      Result!Dataset!Spec, Proved!Dataset!Spec
<1>. QED  BY Views, <1>1, <1>2, PTL
=============================================================================
