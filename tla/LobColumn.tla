----------------------------- MODULE LobColumn -----------------------------
(***************************************************************************)
(* A column of large objects, as an accessor of one of the engines reads   *)
(* it, and a Variant the client has copied from it (sv_accessor<...Data*>, *)
(* ...Data_lib...::getBlobStream, cast2Blob, type_blob.cc, type_memo.cc).  *)
(* The object comes out of the driver once, through a stream; what was     *)
(* read is kept in the buffers of the accessor until the next row.         *)
(***************************************************************************)
EXTENDS Naturals, Sequences

CONSTANTS
  Lobs,    \* the objects of the rows, in their order: sequences of characters
  NullLob, \* or this
  Lost,    \* a character of memory that the library has given up
  Segment  \* DAL_FIREBIRD_BLOBBUF_SIZE

Characters ==
  {Lost} \union UNION {{Lobs[k][i] : i \in DOMAIN Lobs[k]} : k \in {n \in DOMAIN Lobs : Lobs[n] # NullLob}}

ASSUME SegmentPositive == Segment \in Nat \ {0}
ASSUME LobsAssumption  == Lobs \in Seq({NullLob} \union Seq(Characters))

Embedded == {"sqlite", "sdi"}
Odbc     == {"odbc", "odbc_deferred"} \* DBWTL_ODBC_DEFERRED_LOB_FETCH
Readers  == Embedded \union Odbc \union {"firebird"}

\* What a call throws, in the place of the characters it gives.
Failures == {<<"NullException">>, <<"ConvertException">>, <<"EngineException">>}

VARIABLES
  reader,   \* the engine of the resultset
  lobType,  \* the type of the column: WMEMO is SQL_WLONGVARCHAR
  accessor, \* the accessor: its row, its stream, text and cache
  handed,   \* the buffers the client has streams over
  copied,   \* m_data of the Blob or Memo in the client's Variant
  spent,    \* has the client taken characters out of the driver's stream?
  received  \* what the column gave for that Variant

lobVars == <<reader, lobType, accessor, handed, copied, spent, received>>

-----------------------------------------------------------------------------
(* Buffers: the characters, how many were read, the row they are of        *)

Unset      == [data |-> <<>>, at |-> 0, row |-> 0]
IsSet(b)   == b.row # 0
Buffered(a, s) == [data |-> s, at |-> 0, row |-> a.row]
Rest(b)    == SubSeq(b.data, b.at + 1, Len(b.data))
Drained(b) == [b EXCEPT !.at = Len(b.data)]

\* m_data << s
Added(a, b, s) == [b EXCEPT !.data = @ \o s, !.row = a.row]

Answered(a, r) == [accessor |-> a, ret |-> r]
Passed(o)      == o.ret \notin Failures

\* The characters of the row; a NULL of an ODBC driver has none.
Value(a)    == Lobs[a.row]
Contents(a) == IF Value(a) = NullLob THEN <<>> ELSE Value(a)

\* getBlob(), getBlobStream(): the driver's stream is opened once in a row.
Opened(a) ==
  IF Value(a) = NullLob /\ reader \notin Odbc THEN Answered(a, <<"NullException">>)
  ELSE Answered(IF IsSet(a.stream) THEN a ELSE [a EXCEPT !.stream = Buffered(a, Contents(a))], <<>>)

\* getMemo(), getMemoStream(): all that is left in the stream becomes text.
Decoded(a) ==
  LET o == Opened(a)
  IN  IF lobType = "WMEMO" \/ ~Passed(o) THEN o
      ELSE Answered([o.accessor EXCEPT !.text = Added(a, @, Rest(o.accessor.stream)),
                                       !.stream = Drained(@)], <<>>)

\* The buffer a BLOB or a MEMO is read from.
Opens(type, a)  == IF type = "BLOB" THEN Opened(a) ELSE Decoded(a)
Source(type)    == IF type = "BLOB" \/ lobType = "WMEMO" THEN "stream" ELSE "text"
Taken(type, a)  == Answered([a EXCEPT ![Source(type)] = Drained(@)], Rest(a[Source(type)]))

\* cast2Blob(), cast2Memo(), and the same for SQLite: what is read is kept.  The
\* cache is there, and empty, when the stream cannot be opened.
CastToCache(type, a) ==
  LET o == Opens(type, a)
      t == Taken(type, o.accessor)
  IN  IF IsSet(a.cache) THEN Answered([a EXCEPT !.cache = Drained(@)], a.cache.data)
      ELSE IF ~Passed(o) THEN Answered([o.accessor EXCEPT !.cache = Buffered(a, <<>>)], o.ret)
      ELSE Answered([t.accessor EXCEPT !.cache = Drained(Buffered(a, t.ret))], t.ret)

\* The SDI accessor keeps nothing.
CastFromStream(type, a) ==
  LET o == Opens(type, a) IN IF Passed(o) THEN Taken(type, o.accessor) ELSE o

MemoType == IF lobType = "BLOB" THEN "BLOB" ELSE "MEMO"

\* The other type is read from a deep copy, which does not convert.
CastToOther(a) ==
  LET o == CastToCache(MemoType, a)
  IN  IF Passed(o) THEN Answered(o.accessor, <<"ConvertException">>) ELSE o

-----------------------------------------------------------------------------
(* What the client asks an accessor for                                    *)

GetBlob(a) ==
  CASE reader = "sqlite" -> CastToCache("BLOB", a)
    [] reader = "sdi"    -> CastFromStream("BLOB", a)
    [] OTHER -> IF lobType = "BLOB" THEN CastToCache("BLOB", a) ELSE CastToOther(a)

GetMemo(a) ==
  CASE reader = "sqlite" -> Answered(a, <<"ConvertException">>)
    [] reader = "sdi"    -> CastFromStream("MEMO", a)
    [] OTHER -> IF lobType # "BLOB" THEN CastToCache("MEMO", a) ELSE CastToOther(a)

\* SQLite may move the bytes of a BLOB when it is asked for the text.
MovedAway(b) == IF IsSet(b) THEN [b EXCEPT !.data = [i \in DOMAIN @ |-> Lost]] ELSE b

GetString(a) ==
  CASE reader = "sqlite" -> IF Value(a) = NullLob THEN Answered(a, <<"NullException">>)
                            ELSE Answered([a EXCEPT !.stream = MovedAway(@)], Value(a))
    [] reader = "sdi"    -> CastFromStream(MemoType, a)
    [] OTHER             -> CastToCache(MemoType, a)

\* A stream over what was kept begins at the front; what the driver's stream
\* has given is gone.
StreamOver(type, a) ==
  LET o == Opens(type, a)
  IN  IF IsSet(a.cache) THEN Answered([a EXCEPT !.cache.at = 0], <<"cache">>)
      ELSE IF Passed(o) THEN Answered(o.accessor, <<Source(type)>>) ELSE o

GetStream(type, a) ==
  IF \/ reader = "sqlite" /\ type = "BLOB"
     \/ reader \notin Embedded /\ type = MemoType
    THEN StreamOver(type, a)
    ELSE Answered(a, <<"ConvertException">>)

\* deepcopy() of the accessor, for a Variant that is not null.
DeepCopy(a) ==
  CASE reader = "sdi" -> Answered(a, <<"ConvertException">>)
    [] reader = "sqlite" /\ lobType # "BLOB" -> Answered(a, <<"EngineException">>)
    [] OTHER -> CastToCache(MemoType, a)

GetAs(what, a) ==
  CASE what = "Blob" -> GetBlob(a) [] what = "Memo" -> GetMemo(a)
    [] what = "String" -> GetString(a) [] what = "copy" -> DeepCopy(a)

\* A bug: the cache of an earlier row stays, in all engines.
Refreshed_Cache(a) == [a EXCEPT !.stream = Unset]

\* refresh() of the data.  What belongs to the SQLite accessor itself, and the
\* text of the SDI data, stay.
Refreshed(a) ==
  IF reader \in Embedded THEN [a EXCEPT !.stream = Unset]
  ELSE [row |-> a.row, stream |-> Unset, text |-> Unset, cache |-> Unset]

\* The resultset comes to the next row; ODBC objects are fetched with it.
Arrived(a) ==
  LET here == Refreshed([a EXCEPT !.row = @ + 1])
  IN  IF reader = "odbc" THEN [CastToCache(MemoType, here).accessor EXCEPT !.cache.at = 0] ELSE here

-----------------------------------------------------------------------------
(* The Blob or Memo in a Variant                                           *)

\* A copy of a Blob begins at the front of the other one, a copy of a Memo where
\* that was read to.
CopyOf(b) == IF lobType = "BLOB" THEN b.data ELSE Rest(b)

\* cast(String*): of a Blob, all is read; of a Memo, str() is taken.
TextOf(b) == [b EXCEPT !.at = IF lobType = "BLOB" THEN Len(b.data) ELSE 0]

-----------------------------------------------------------------------------
(* The Blob or Memo in a Variant as the value of a parameter               *)

\* What became of it: the buffer as it was left, the object the server has, and
\* the handle of the blob in Firebird, which is closed or could not be closed.
Sending(b, told, object, handle) == [buffer |-> b, told |-> told, object |-> object, handle |-> handle]

Smaller(a, b) == IF a < b THEN a ELSE b

\* A Blob is read piece by piece, a Memo all at once.
ReadPieces(b, k) ==
  IF lobType = "BLOB" THEN [b EXCEPT !.at = Smaller(Len(b.data), @ + k * Segment)] ELSE Drained(b)

\* A bug: one piece is taken for all of the object.
FillBlob_Piece(b, memoParam) ==
  {Sending(ReadPieces(b, 1), "stored", SubSeq(b.data, b.at + 1, Smaller(Len(b.data), b.at + Segment)), "closed")}

\* A bug: what fails in between leaves the blob open.
FillBlob_Open(b, memoParam) == {Sending(ReadPieces(b, 1), "threw", <<>>, "open")}

\* fillBlob(): creating the blob, putting any of the pieces and closing it may fail; a
\* Blob does not become a text, nor a Memo bytes.  Where the buffer was read to, the
\* object begins.
FillBlob(b, memoParam) ==
  LET pieces == (Len(Rest(b)) + Segment - 1) \div Segment
      Failed(k) == {Sending(ReadPieces(b, k), "threw", <<>>, h) : h \in {"closed", "close failed"}}
  IN  {Sending(b, "threw", <<>>, "none")}
      \union (IF memoParam # (lobType # "BLOB") THEN Failed(0)
              ELSE (UNION {Failed(k) : k \in 1 .. pieces})
                   \union {Sending(ReadPieces(b, pieces), "threw", <<>>, "close failed"),
                           Sending(ReadPieces(b, pieces), "stored", Rest(b), "closed")})

\* SQLite: a Blob from where it was read to, a Memo as the text that it is.
BindBlob(b) ==
  IF lobType = "BLOB" THEN Sending(Drained(b), "stored", Rest(b), "none")
  ELSE Sending(TextOf(b), "stored", b.data, "none")

Sendings(b) == {BindBlob(b)} \union UNION {FillBlob(b, memoParam) : memoParam \in BOOLEAN}

-----------------------------------------------------------------------------
LobInit ==
  /\ reader \in Readers
  /\ lobType \in IF reader \in Odbc THEN {"BLOB", "MEMO", "WMEMO"} ELSE {"BLOB", "MEMO"}
  /\ accessor = [row |-> 0, stream |-> Unset, text |-> Unset, cache |-> Unset]
  /\ handed = {} /\ copied = Unset /\ spent = FALSE /\ received = <<>>

OnLob == accessor.row # 0

\* The streams of the client are invalid on the next row.
nextLob ==
  /\ accessor.row < Len(Lobs)
  /\ accessor' = Arrived(accessor) /\ handed' = {} /\ spent' = FALSE
  /\ UNCHANGED <<reader, lobType, copied, received>>

\* get<Blob>(), get<Memo>(), get<String>()
getLob(what) ==
  /\ OnLob
  /\ accessor' = GetAs(what, accessor).accessor
  /\ UNCHANGED <<reader, lobType, handed, copied, spent, received>>

\* get<BlobStream>(), get<MemoStream>()
getStream(type) ==
  /\ OnLob
  /\ LET o == GetStream(type, accessor)
     IN  /\ accessor' = o.accessor
         /\ handed' = handed \union (IF Passed(o) THEN {o.ret[1]} ELSE {})
  /\ UNCHANGED <<reader, lobType, copied, spent, received>>

\* The client reads a character through one of its streams.
take(buffer) ==
  /\ buffer \in handed
  /\ Rest(accessor[buffer]) # <<>>
  /\ accessor' = [accessor EXCEPT ![buffer].at = @ + 1]
  /\ spent' = (spent \/ buffer # "cache")
  /\ UNCHANGED <<reader, lobType, handed, copied, received>>

\* Variant::assign() of the column.
copyLob ==
  /\ OnLob /\ Value(accessor) # NullLob
  /\ LET o == DeepCopy(accessor)
     IN  /\ accessor' = o.accessor
         /\ copied' = IF Passed(o) THEN Buffered(accessor, o.ret) ELSE Unset
         /\ received' = IF Passed(o) THEN o.ret ELSE <<>>
  /\ UNCHANGED <<reader, lobType, handed, spent>>

\* Variant::assign() of the copy; the client goes on with either of them.
copyAgain ==
  /\ IsSet(copied)
  /\ \/ copied' = Drained(copied)
     \/ copied' = [copied EXCEPT !.data = CopyOf(copied), !.at = 0]
  /\ UNCHANGED <<reader, lobType, accessor, handed, spent, received>>

getTextOfCopy ==
  /\ IsSet(copied)
  /\ copied' = TextOf(copied)
  /\ UNCHANGED <<reader, lobType, accessor, handed, spent, received>>

\* execute() with the copy as a parameter, of SQLite or Firebird.
sendCopy ==
  /\ IsSet(copied)
  /\ \E o \in Sendings(copied) : copied' = o.buffer
  /\ UNCHANGED <<reader, lobType, accessor, handed, spent, received>>

\* What was read of a Memo misses in its copies, until it is asked for its text.
Whole == lobType # "BLOB" => copied.at = 0

LobNext ==
  \/ nextLob \/ copyLob \/ getTextOfCopy \/ sendCopy
  \/ \E what \in {"Blob", "Memo", "String"} : getLob(what)
  \/ \E type \in {"BLOB", "MEMO"} : getStream(type)
  \/ \E buffer \in {"stream", "text", "cache"} : take(buffer)
  \/ Whole /\ copyAgain

LobSpec == LobInit /\ [][LobNext]_lobVars

-----------------------------------------------------------------------------
\* What the accessors do not keep track of: the cache of SQLite may be of an
\* earlier row; a cache that was made for a NULL is empty; SDI gives the object
\* once in a row; after a String, a SQLite stream is over memory that was given up.
Untold ==
  \/ IsSet(accessor.cache) /\ (accessor.cache.row # accessor.row \/ Value(accessor) = NullLob)
  \/ reader = "sdi" /\ IsSet(accessor.stream)
  \/ \E i \in DOMAIN accessor.stream.data : accessor.stream.data[i] = Lost

\* Whatever a column was asked for before, and in whichever order, a Blob, Memo,
\* String or copy of it is all of the object of its row, or it throws; only a
\* client that has read from its stream itself gets the rest.  A NULL throws,
\* unless it is empty as in an ODBC driver.
ColumnWhole ==
  OnLob /\ ~spent /\ ~Untold =>
    \A what \in {"Blob", "Memo", "String", "copy"} :
      LET r == GetAs(what, accessor).ret
      IN  r \in Failures \/ r = (IF reader \in Odbc THEN Contents(accessor) ELSE Value(accessor))

\* A Variant that was copied keeps the object when rows and buffers are gone.
CopyWhole ==
  IsSet(copied) => copied.data = received /\ (Whole => CopyOf(copied) = received)

\* A copy nobody has read from is the parameter as it was, however many pieces it
\* takes, or the call throws; and no blob is left open but where closing it failed.
SentWhole ==
  IsSet(copied) =>
    \A o \in Sendings(copied) :
      /\ o.told = "stored" /\ copied.at = 0 => o.object = received
      /\ o.handle # "open"

\* An object arrives whole, on its way out of a column and into a parameter.
LobWhole == ColumnWhole /\ CopyWhole /\ SentWhole

\* What EngineVariant::refresh() is for (dal_interface.hh:353): when the cursor
\* moves, the buffers of a BLOB are invalidated, so that its row's is read.
BlobOfRow ==
  reader = "sqlite" /\ OnLob /\ Value(accessor) # NullLob /\ handed = {} =>
    GetAs("Blob", accessor).ret \in Failures \union {Value(accessor)}
=============================================================================
